---- MODULE Spec2Model ----
(***************************************************************************)
(* A model of cellprofiler/pipeline.py: the Pipeline's module list with    *)
(* its undo stack, the text codec (savetxt / loadtxt) and the run loop     *)
(* (run_with_yield).                                                       *)
(***************************************************************************)
EXTENDS Integers, Sequences, FiniteSets, TLC

\* ------------------------------------------------------------------------
\* Bounds of the model
\* ------------------------------------------------------------------------
\* number of module objects that can be alive at once
MaxModules == 3
\* number of primitive undo closures the undo stack may hold
MaxUndo == 3
\* the most modules of a pipeline that is saved
MaxSaved == 2
\* the most modules of a pipeline that is run
MaxRun == 2
\* the image sets of a run
MaxImages == 3
\* the most modules of a pipeline whose dependencies are analysed
MaxGraph == 3

\* ------------------------------------------------------------------------
\* Python list semantics: indices are 0-based and may be negative
\* ------------------------------------------------------------------------
Min(a, b) == IF a < b THEN a ELSE b
Max(a, b) == IF a > b THEN a ELSE b

\* the bound a slice index is clamped to, s[i:] or s[:i]
PyClamp(s, i) == IF i < 0 THEN Max(i + Len(s), 0) ELSE Min(i, Len(s))
\* s[i:j]
PySlice(s, i, j) ==
    LET a == PyClamp(s, i)
        b == PyClamp(s, j)
    IN IF a >= b THEN <<>> ELSE SubSeq(s, a + 1, b)
\* s[:j]
PyTo(s, j) == PySlice(s, 0, j)
\* s[i:]
PyFrom(s, i) == IF i < 0 THEN SubSeq(s, PyClamp(s, i) + 1, Len(s))
                ELSE SubSeq(s, Min(i, Len(s)) + 1, Len(s))
\* whether s[i] exists (else IndexError)
PyHas(s, i) == -Len(s) <= i /\ i < Len(s)
\* the 1-based place of s[i]
PyPos(s, i) == IF i < 0 THEN i + Len(s) + 1 ELSE i + 1
\* s[i]
PyGet(s, i) == s[PyPos(s, i)]
\* s[i] = x
PySet(s, i, x) == [s EXCEPT ![PyPos(s, i)] = x]
\* s.insert(i, x)
PyInsert(s, i, x) == PyTo(s, i) \o <<x>> \o PyFrom(s, i)
\* del s[i]
PyDel(s, i) == SubSeq(s, 1, PyPos(s, i) - 1) \o SubSeq(s, PyPos(s, i) + 1, Len(s))
\* reversed(s)
Reversed(s) == [k \in 1..Len(s) |-> s[Len(s) + 1 - k]]
Last(s) == s[Len(s)]
Front(s) == SubSeq(s, 1, Len(s) - 1)

\* ------------------------------------------------------------------------
\* Values
\* ------------------------------------------------------------------------
\* module objects are identified by their place in the heap
Ids == 1..MaxModules
\* undo_start before the first start_undoable_action (None)
NoStart == -1
DIRECTION_UP == "up"
DIRECTION_DOWN == "down"
NoError == "none"
\* the setting values the editing operations choose from (strings, as
\* sequences of characters)
EditValues == {<<"a">>, <<"b">>}
\* a heap cell that holds no module
NoModule ==
    [module_name |-> <<>>, module_num |-> 0, settings |-> <<>>,
     variable_revision_number |-> 0, show_window |-> FALSE, notes |-> <<>>]

\* ------------------------------------------------------------------------
\* State
\* ------------------------------------------------------------------------
VARIABLES
    objs,        \* the module objects: id -> their attributes
    modules,     \* Pipeline.__modules: the ids of the modules, in order
    settings,    \* Pipeline.__settings: per module, the recorded setting values
    undo_stack,  \* Pipeline.__undo_stack: the undo closures, as data
    undo_start,  \* Pipeline.__undo_start
    events,      \* the events the last call notified the listeners of
    error,       \* the exception the last call raised, or NoError
    last,        \* history: the last call and the module list before it
    bracket,     \* history: the module list at start_undoable_action
    file,        \* the pipeline file: its lines
    other,       \* the pipeline that copy() returned
    io,          \* history: the last save or load and the pipeline before it
    pc,          \* the run: where run_with_yield stands
    cfg,         \* the run: the arguments of run_with_yield and the groupings
    it,          \* the run: the local variables of run_with_yield
    meas,        \* the run: the measurements
    hist,        \* history: the hooks the run has called
    graph,       \* the dependency analysis: its modules and its result
    prop,        \* the propagation: its arguments and what it returned
    cache,       \* the measurement columns kept, their hash, the last call
    runner,      \* a ModuleRunner, its thread and the listener's thread
    held         \* history: the entries from before start_undoable_action
                 \* that are still on the undo stack, how many

pipeVars == <<objs, modules, settings, undo_stack, undo_start, events, error>>
histVars == <<last, bracket, held>>
codecVars == <<file, other, io>>
runVars == <<pc, cfg, it, meas, hist>>
graphVars == <<graph>>
propVars == <<prop>>
colVars == <<cache>>
runnerVars == <<runner>>
vars == <<objs, modules, settings, undo_stack, undo_start, events, error,
          last, bracket, file, other, io, pc, cfg, it, meas, hist, graph,
          prop, cache, runner, held>>

\* the pipeline and its modules as one value, entering a call
Self ==
    [objs |-> objs, modules |-> modules, settings |-> settings,
     undo_stack |-> undo_stack, undo_start |-> undo_start,
     events |-> <<>>, error |-> NoError]

\* ------------------------------------------------------------------------
\* Events and undo closures
\* ------------------------------------------------------------------------
Event(type, module_num, direction) ==
    [type |-> type, module_num |-> module_num, direction |-> direction]

\* notify_listeners
notify_listeners(p, e) == [p EXCEPT !.events = Append(@, e)]

\* an exception leaves the call
Raise(p, x) == [p EXCEPT !.error = x]

\* a closure on the undo stack: what it captured, and its message
\* kind - the call the closure makes; m - the module it holds;
\* idx, old - edit_module's idx and old_settings; mods - clear's old_modules;
\* acts - the closures a composite holds
Closure(kind, m, direction, idx, old, mods, acts, msg) ==
    [kind |-> kind, m |-> m, direction |-> direction, idx |-> idx,
     old |-> old, mods |-> mods, acts |-> acts, msg |-> msg]

Push(p, c) == [p EXCEPT !.undo_stack = Append(@, c)]

\* [str(setting) for setting in module.settings()]
SettingStrings(p, m) == p.objs[m].settings

\* module.module_num = v for the modules of ms in turn, v counting up from
\* first, as far as both reach (zip)
RECURSIVE SetNums(_, _, _, _)
SetNums(o, ms, first, count) ==
    IF ms = <<>> \/ count <= 0 THEN o
    ELSE SetNums([o EXCEPT ![Head(ms)].module_num = first],
                 Tail(ms), first + 1, count - 1)

\* module.module_num = module.module_num - 1 for the modules of ms in turn
RECURSIVE DecNums(_, _)
DecNums(o, ms) ==
    IF ms = <<>> THEN o
    ELSE DecNums([o EXCEPT ![Head(ms)].module_num = @ - 1], Tail(ms))

\* ------------------------------------------------------------------------
\* Pipeline.add_module
\* ------------------------------------------------------------------------
\* add_module as it would be without the renumbering loop
add_module_unnumbered(p, new_module) ==
    LET module_num == p.objs[new_module].module_num
        idx == module_num - 1
        mods == PyTo(p.modules, idx) \o <<new_module>> \o PyFrom(p.modules, idx)
        p1 == notify_listeners([p EXCEPT !.modules = mods],
                               Event("ModuleAdded", module_num, ""))
        p2 == [p1 EXCEPT !.settings =
                   PyInsert(@, idx, SettingStrings(p1, new_module))]
    IN Push(p2, Closure("remove_module", new_module, "", 0, <<>>, <<>>, <<>>,
                        "Add module"))

add_module(p, new_module) ==
    LET module_num == p.objs[new_module].module_num
        idx == module_num - 1
        mods == PyTo(p.modules, idx) \o <<new_module>> \o PyFrom(p.modules, idx)
        o == SetNums(p.objs, PyFrom(mods, idx + 1), module_num + 1,
                     Len(mods) - module_num)
        p1 == notify_listeners([p EXCEPT !.modules = mods, !.objs = o],
                               Event("ModuleAdded", module_num, ""))
        p2 == [p1 EXCEPT !.settings =
                   PyInsert(@, idx, SettingStrings(p1, new_module))]
    IN Push(p2, Closure("remove_module", new_module, "", 0, <<>>, <<>>, <<>>,
                        "Add module"))

\* ------------------------------------------------------------------------
\* Pipeline.remove_module
\* ------------------------------------------------------------------------
remove_module(p, module_num) ==
    LET idx == module_num - 1
    IN IF ~PyHas(p.modules, idx) THEN Raise(p, "IndexError")
       ELSE
        LET removed_module == PyGet(p.modules, idx)
            mods == PyTo(p.modules, idx) \o PyFrom(p.modules, idx + 1)
            o == DecNums(p.objs, PyFrom(mods, idx))
            p1 == notify_listeners([p EXCEPT !.modules = mods, !.objs = o],
                                   Event("ModuleRemoved", module_num, ""))
        IN IF ~PyHas(p1.settings, idx) THEN Raise(p1, "IndexError")
           ELSE Push([p1 EXCEPT !.settings = PyDel(@, idx)],
                     Closure("add_module", removed_module, "", 0, <<>>, <<>>, <<>>,
                             "Remove module"))

\* ------------------------------------------------------------------------
\* Pipeline.move_module
\* ------------------------------------------------------------------------
move_down(p, module_num) ==
    LET idx == module_num - 1
    IN IF module_num >= Len(p.modules) THEN Raise(p, "ValueError")
       ELSE IF ~PyHas(p.modules, idx) THEN Raise(p, "IndexError")
       ELSE
        LET module == PyGet(p.modules, idx)
            new_module_num == module_num + 1
            o1 == [p.objs EXCEPT ![module].module_num = module_num + 1]
            next_module == PyGet(p.modules, idx + 1)
            o2 == [o1 EXCEPT ![next_module].module_num = module_num]
            mods == PySet(PySet(p.modules, idx, next_module), idx + 1, module)
            next_settings == PyGet(p.settings, idx + 1)
            s1 == PySet(p.settings, idx + 1, PyGet(p.settings, idx))
            s2 == PySet(s1, idx, next_settings)
            p1 == notify_listeners(
                      [p EXCEPT !.objs = o2, !.modules = mods, !.settings = s2],
                      Event("ModuleMoved", new_module_num, DIRECTION_DOWN))
        IN Push(p1, Closure("move_module", module, DIRECTION_DOWN, 0, <<>>,
                            <<>>, <<>>, "Move down"))

move_up(p, module_num) ==
    LET idx == module_num - 1
    IN IF module_num <= 1 THEN Raise(p, "ValueError")
       ELSE IF ~PyHas(p.modules, idx) THEN Raise(p, "IndexError")
       ELSE
        LET module == PyGet(p.modules, idx)
            prev_module == PyGet(p.modules, idx - 1)
            new_module_num == p.objs[prev_module].module_num
            o1 == [p.objs EXCEPT ![module].module_num = new_module_num]
            o2 == [o1 EXCEPT ![prev_module].module_num = module_num]
            m1 == PySet(p.modules, idx, PyGet(p.modules, idx - 1))
            mods == PySet(m1, idx - 1, module)
            prev_settings == PyGet(p.settings, idx - 1)
            s1 == PySet(p.settings, idx - 1, PyGet(p.settings, idx))
            s2 == PySet(s1, idx, prev_settings)
            p1 == notify_listeners(
                      [p EXCEPT !.objs = o2, !.modules = mods, !.settings = s2],
                      Event("ModuleMoved", new_module_num, DIRECTION_UP))
        IN Push(p1, Closure("move_module", module, DIRECTION_UP, 0, <<>>,
                            <<>>, <<>>, "Move up"))

\* move_module as it would be, did it ignore a move that cannot be made
move_module_ignoring(p, module_num, direction) ==
    IF direction = DIRECTION_DOWN
    THEN IF module_num >= Len(p.modules) THEN p ELSE move_down(p, module_num)
    ELSE IF direction = DIRECTION_UP
    THEN IF module_num <= 1 THEN p ELSE move_up(p, module_num)
    ELSE p

move_module(p, module_num, direction) ==
    IF direction = DIRECTION_DOWN THEN move_down(p, module_num)
    ELSE IF direction = DIRECTION_UP THEN move_up(p, module_num)
    ELSE Raise(p, "ValueError")

\* ------------------------------------------------------------------------
\* Pipeline.edit_module
\* ------------------------------------------------------------------------
edit_module(p, module_num) ==
    LET idx == module_num - 1
    IN IF ~PyHas(p.settings, idx) \/ ~PyHas(p.modules, idx)
       THEN Raise(p, "IndexError")
       ELSE
        LET old_settings == PyGet(p.settings, idx)
            module == PyGet(p.modules, idx)
            new_settings == SettingStrings(p, module)
            p1 == notify_listeners(p, Event("ModuleEdited", module_num, ""))
            p2 == [p1 EXCEPT !.settings = PySet(@, idx, new_settings)]
        IN Push(p2, Closure("edit_module", module_num, "", idx, old_settings,
                            <<>>, <<>>, "Edited"))

\* the closure of edit_module as it would be if it put back the recorded
\* strings only, and not the module's settings
undo_edit_record_only(p, c) ==
    IF ~PyHas(p.settings, c.idx) THEN Raise(p, "IndexError")
    ELSE [notify_listeners(p, Event("ModuleEdited", c.m, ""))
            EXCEPT !.settings = PySet(@, c.idx, c.old)]

\* the closure edit_module pushes
undo_edit(p, c) ==
    IF ~PyHas(p.modules, c.idx) THEN Raise(p, "IndexError")
    ELSE
     LET module == PyGet(p.modules, c.idx)
         \* module.set_settings_from_values(old_settings, ...)
         o == [p.objs EXCEPT ![module].settings = c.old]
         p1 == notify_listeners([p EXCEPT !.objs = o],
                                Event("ModuleEdited", c.m, ""))
     IN IF ~PyHas(p1.settings, c.idx) THEN Raise(p1, "IndexError")
        ELSE [p1 EXCEPT !.settings = PySet(@, c.idx, c.old)]

\* ------------------------------------------------------------------------
\* Pipeline.clear
\* ------------------------------------------------------------------------
clear(p) ==
    LET old_modules == p.modules
        p1 == Push(p, Closure("clear", 0, "", 0, <<>>, old_modules, <<>>,
                              "Undo clear"))
    IN notify_listeners([p1 EXCEPT !.modules = <<>>],
                        Event("PipelineCleared", 0, ""))

\* ------------------------------------------------------------------------
\* Calling an undo closure
\* ------------------------------------------------------------------------
RECURSIVE call_closure(_, _)
RECURSIVE call_each(_, _)

\* for action in acts: action(), until one raises
call_each(p, acts) ==
    IF acts = <<>> \/ p.error # NoError THEN p
    ELSE call_each(call_closure(p, Head(acts)), Tail(acts))

\* the loop of clear's undo as it would be, did it stop after one module
add_each_once(p, ms) ==
    IF ms = <<>> \/ p.error # NoError THEN p
    ELSE add_module(p, Head(ms))

\* for module in ms: self.add_module(module), until one raises
RECURSIVE add_each(_, _)
add_each(p, ms) ==
    IF ms = <<>> \/ p.error # NoError THEN p
    ELSE add_each(add_module(p, Head(ms)), Tail(ms))

call_closure(p, c) ==
    CASE c.kind = "remove_module" ->
            remove_module(p, p.objs[c.m].module_num)
      [] c.kind = "add_module" -> add_module(p, c.m)
      [] c.kind = "move_module" ->
            move_module(p, p.objs[c.m].module_num,
                        IF c.direction = DIRECTION_UP THEN DIRECTION_DOWN
                        ELSE DIRECTION_UP)
      [] c.kind = "edit_module" -> undo_edit(p, c)
      [] c.kind = "clear" -> add_each(p, c.mods)
      [] c.kind = "composite" -> call_each(p, Reversed(c.acts))

\* ------------------------------------------------------------------------
\* Pipeline.undo
\* ------------------------------------------------------------------------
\* action(): raises - the action is the closure of an edit_module and the
\* module's set_settings_from_values raises
call_action(p, action, raises) ==
    IF raises /\ action.kind = "edit_module" THEN Raise(p, "ValueError")
    ELSE call_closure(p, action)

\* undo as it would be, did it leave the stack attached while the action
\* runs
undo_recording(p, raises) ==
    IF Len(p.undo_stack) = 0 THEN p
    ELSE call_action([p EXCEPT !.undo_stack = Front(@)], Last(p.undo_stack),
                     raises)

undo(p, raises) ==
    IF Len(p.undo_stack) = 0 THEN p
    ELSE
     LET action == Last(p.undo_stack)
         real_undo_stack == Front(p.undo_stack)
         p1 == call_action([p EXCEPT !.undo_stack = <<>>], action, raises)
     IN [p1 EXCEPT !.undo_stack = real_undo_stack]

\* ------------------------------------------------------------------------
\* Pipeline.start_undoable_action, stop_undoable_action
\* ------------------------------------------------------------------------
start_undoable_action(p) == [p EXCEPT !.undo_start = Len(p.undo_stack)]

\* stop_undoable_action as it would be if it combined from undo_start + 1
stop_undoable_action_late(p, name) ==
    IF p.undo_start = NoStart THEN Raise(p, "TypeError")
    ELSE IF Len(p.undo_stack) > p.undo_start + 1
    THEN LET actions == PyFrom(p.undo_stack, p.undo_start + 1)
             rest == PyTo(p.undo_stack, p.undo_start + 1)
         IN [p EXCEPT !.undo_stack =
                 Append(rest, Closure("composite", 0, "", 0, <<>>, <<>>,
                                      actions, name))]
    ELSE p

stop_undoable_action(p, name) ==
    IF p.undo_start = NoStart THEN Raise(p, "TypeError")
    ELSE IF Len(p.undo_stack) > p.undo_start + 1
    THEN LET actions == PyFrom(p.undo_stack, p.undo_start)
             rest == PyTo(p.undo_stack, p.undo_start)
         IN [p EXCEPT !.undo_stack =
                 Append(rest, Closure("composite", 0, "", 0, <<>>, <<>>,
                                      actions, name))]
    ELSE p

\* ------------------------------------------------------------------------
\* Strings of the text format. A string is a sequence of characters; a word
\* without any character the format treats specially (a keyword, a module
\* name, a number) is written as one character.
\* ------------------------------------------------------------------------
BS == "\\"
COOKIE == "CellProfiler Pipeline: http://www.cellprofiler.org"
\* the current pipeline file format version
NATIVE_VERSION == 2
H_VERSION == "Version"
H_SVN_REVISION == "SVNRevision"
H_DATE_REVISION == "DateRevision"
H_FROM_MATLAB == "FromMatlab"
\* cellprofiler.utilities.version.version_number, as text
VersionNumber == "20130101"
Indent == "    "
Whitespace == {" ", Indent, "\t"}
HexDigits == {"3", "5", "7", "A", "B", "C", "D"}
OctalDigits == {"3", "5", "7"}
\* a character of no interest that an escape can stand for
OtherChar == "?"

RECURSIVE Flat(_)
\* "".join(parts)
Flat(parts) == IF parts = <<>> THEN <<>> ELSE Head(parts) \o Flat(Tail(parts))

RECURSIVE Join(_, _)
\* sep.join(parts)
Join(parts, sep) ==
    IF parts = <<>> THEN <<>>
    ELSE IF Len(parts) = 1 THEN Head(parts)
    ELSE Head(parts) \o <<sep>> \o Join(Tail(parts), sep)

RECURSIVE SplitFrom(_, _, _)
SplitFrom(s, sep, cur) ==
    IF s = <<>> THEN <<cur>>
    ELSE IF Head(s) = sep THEN <<cur>> \o SplitFrom(Tail(s), sep, <<>>)
    ELSE SplitFrom(Tail(s), sep, Append(cur, Head(s)))
\* s.split(sep)
Split(s, sep) == SplitFrom(s, sep, <<>>)

\* s.find(c): the 0-based place of the first c, or -1
Find(s, c) ==
    IF \E k \in 1..Len(s) : s[k] = c
    THEN (CHOOSE k \in 1..Len(s) : s[k] = c /\ \A j \in 1..(k - 1) : s[j] # c) - 1
    ELSE -1

\* len(line.strip()) == 0
IsBlank(line) == \A k \in 1..Len(line) : line[k] \in Whitespace

RECURSIVE LStrip(_)
LStrip(s) == IF s # <<>> /\ Head(s) \in Whitespace THEN LStrip(Tail(s)) ELSE s
\* s.strip()
Strip(s) == Reversed(LStrip(Reversed(LStrip(s))))

\* one character under s.encode('string_escape')
EscapeChar(c) ==
    CASE c = BS -> <<BS, BS>>
      [] c = "'" -> <<BS, "'">>
      [] c = "\n" -> <<BS, "n">>
      [] OTHER -> <<c>>

\* s.encode('string_escape')
StringEscape(s) == Flat([k \in 1..Len(s) |-> EscapeChar(s[k])])

\* s.replace(c, to), c one character
Replace(s, c, to) == Flat([k \in 1..Len(s) |-> IF s[k] = c THEN to ELSE <<s[k]>>])

\* the character that \xHL stands for
HexChar(h, l) ==
    CASE h = "3" /\ l = "A" -> ":"
      [] h = "7" /\ l = "C" -> "|"
      [] h = "5" /\ l = "B" -> "["
      [] h = "5" /\ l = "D" -> "]"
      [] h = "5" /\ l = "C" -> BS
      [] OTHER -> OtherChar

Bad == [ok |-> FALSE, s |-> <<>>]
Good(s) == [ok |-> TRUE, s |-> s]

RECURSIVE StringUnescape(_)
\* s.decode('string_escape'); not ok stands for its ValueError
StringUnescape(s) ==
    IF s = <<>> THEN Good(<<>>)
    ELSE IF Head(s) # BS
    THEN LET r == StringUnescape(Tail(s))
         IN IF r.ok THEN Good(<<Head(s)>> \o r.s) ELSE Bad
    ELSE IF Len(s) = 1 THEN Bad
    ELSE IF s[2] = "x"
    THEN IF Len(s) >= 4 /\ s[3] \in HexDigits /\ s[4] \in HexDigits
         THEN LET r == StringUnescape(SubSeq(s, 5, Len(s)))
              IN IF r.ok THEN Good(<<HexChar(s[3], s[4])>> \o r.s) ELSE Bad
         ELSE Bad
    ELSE LET r == StringUnescape(SubSeq(s, 3, Len(s)))
             c == CASE s[2] = BS -> <<BS>>
                    [] s[2] = "'" -> <<"'">>
                    [] s[2] = "n" -> <<"\n">>
                    [] s[2] \in OctalDigits -> <<OtherChar>>
                    [] OTHER -> <<BS, s[2]>>
         IN IF r.ok THEN Good(c \o r.s) ELSE Bad

\* ------------------------------------------------------------------------
\* Pipeline.encode_txt
\* ------------------------------------------------------------------------
encode_txt(s) ==
    LET s1 == StringEscape(s)
        s2 == Replace(s1, ":", <<BS, "x", "3", "A">>)
        s3 == Replace(s2, "|", <<BS, "x", "7", "C">>)
    IN Replace(Replace(s3, "[", <<BS, "x", "5", "B">>),
               "]", <<BS, "x", "5", "D">>)

\* cellprofiler.utilities.utf16encode.utf16encode, on ASCII text: the
\* backslash, which introduces its escapes, is doubled
utf16encode(s) == Replace(s, BS, <<BS, BS>>)

RECURSIVE utf16decode(_)
\* cellprofiler.utilities.utf16encode.utf16decode, on ASCII text
utf16decode(s) ==
    IF s = <<>> THEN <<>>
    ELSE IF Head(s) = BS /\ Len(s) >= 2 /\ s[2] = BS
    THEN <<BS>> \o utf16decode(SubSeq(s, 3, Len(s)))
    ELSE <<Head(s)>> \o utf16decode(Tail(s))

\* ------------------------------------------------------------------------
\* repr and eval of the attribute values
\* ------------------------------------------------------------------------
Digits == <<"0", "1", "2", "3", "4", "5", "6", "7", "8", "9">>
\* int(s) succeeds
IsInt(s) == Len(s) = 1 /\ (s[1] = VersionNumber \/ \E n \in 0..9 : Digits[n + 1] = s[1])
\* int(s)
ToInt(s) ==
    IF s[1] = VersionNumber THEN 20130101
    ELSE CHOOSE n \in 0..9 : Digits[n + 1] = s[1]
\* "%d" % n
FromInt(n) == <<Digits[n + 1]>>

\* repr of a string: in quotes, the backslash doubled
ReprString(t) == <<"'">> \o Replace(t, BS, <<BS, BS>>) \o <<"'">>
\* repr of a list of strings
ReprList(l) ==
    <<"[">> \o Flat([k \in 1..Len(l) |->
                        (IF k > 1 THEN <<",", " ">> ELSE <<>>) \o ReprString(l[k])])
            \o <<"]">>
ReprBool(b) == IF b THEN <<"True">> ELSE <<"False">>
\* repr(numpy.zeros((0,), numpy.uint8)), the batch_state of a module
ReprBatchState == <<"array(", "[", "]", ",", " ", "dtype=uint8)">>

\* the notes a module may carry
NoteValues == {<<>>, << <<"z">> >>, << <<":", "|">> >>, << <<BS>>, <<"[">> >>}

\* eval(text): the value whose repr the text is; not ok stands for the
\* exception eval raises on anything else
Eval(text) ==
    IF text \in {ReprBool(TRUE), ReprBool(FALSE)}
    THEN [ok |-> TRUE, kind |-> "bool", b |-> text = ReprBool(TRUE), n |-> 0, l |-> <<>>]
    ELSE IF IsInt(text)
    THEN [ok |-> TRUE, kind |-> "int", b |-> FALSE, n |-> ToInt(text), l |-> <<>>]
    ELSE IF \E l \in NoteValues : ReprList(l) = text
    THEN [ok |-> TRUE, kind |-> "list", b |-> FALSE, n |-> 0,
          l |-> CHOOSE l \in NoteValues : ReprList(l) = text]
    ELSE IF text = ReprBatchState
    THEN [ok |-> TRUE, kind |-> "array", b |-> FALSE, n |-> 0, l |-> <<>>]
    ELSE [ok |-> FALSE, kind |-> "", b |-> FALSE, n |-> 0, l |-> <<>>]

\* ------------------------------------------------------------------------
\* The module classes (instantiate_module)
\* ------------------------------------------------------------------------
ModuleNames == {"Align", "Crop"}
\* the variable_revision_number of a module class
RevisionOf(name) == IF name = "Align" THEN 1 ELSE 2

\* ------------------------------------------------------------------------
\* Pipeline.savetxt
\* ------------------------------------------------------------------------
\* the header line of a module
ModuleHeader(mod) ==
    LET attributes == <<"module_num", "svn_version", "variable_revision_number",
                        "show_window", "notes", "batch_state">>
        attribute_values ==
            <<FromInt(mod.module_num), FromInt(0),
              FromInt(mod.variable_revision_number),
              ReprBool(mod.show_window), ReprList(mod.notes), ReprBatchState>>
        attribute_strings ==
            [k \in 1..6 |-> <<attributes[k], ":">> \o encode_txt(attribute_values[k])]
    IN encode_txt(mod.module_name) \o <<":", "[">>
       \o Join(attribute_strings, "|") \o <<"]">>

\* the lines of the settings of a module
SettingLines(mod) ==
    [k \in 1..Len(mod.settings) |->
        <<Indent>> \o encode_txt(<<"text">>) \o <<":">>
        \o encode_txt(utf16encode(mod.settings[k]))]

\* the lines savetxt writes, for a file format version
SaveLines(p, version) ==
    << <<COOKIE>>, <<H_VERSION, ":">> \o FromInt(version),
       <<H_DATE_REVISION, ":", VersionNumber>> >>
    \o Flat([k \in 1..Len(p.modules) |->
                << <<>>, ModuleHeader(p.objs[p.modules[k]]) >>
                \o SettingLines(p.objs[p.modules[k]])])

savetxt(p) == SaveLines(p, NATIVE_VERSION)

\* ------------------------------------------------------------------------
\* Pipeline.loadtxt
\* ------------------------------------------------------------------------
\* variable_revision_number = None
None == -1

LoadExceptionEvent(module_name, setting_values) ==
    [type |-> "LoadException", module_num |-> 0, direction |-> "",
     module_name |-> module_name, settings |-> setting_values,
     cancel_run |-> TRUE]

\* cellprofiler.modules.instantiate_module finds a class of that name
Known(name) == Len(name) = 1 /\ name[1] \in ModuleNames

\* the module as its class makes it
instantiate_module(name) ==
    [module_name |-> name, module_num |-> 0, settings |-> <<>>,
     variable_revision_number |-> RevisionOf(name[1]), show_window |-> TRUE,
     notes |-> <<>>]

\* module.set_settings_from_values(settings, variable_revision_number,
\* module_name, from_matlab): the settings take the values
set_settings_from_values(mod, setting_values) ==
    [mod EXCEPT !.settings = setting_values]

\* a line of the header section, split at its colons
RECURSIVE ReadHeader(_, _, _, _)
HeaderLine(fd, i, h, native, parts) ==
    IF Len(parts) # 2 THEN [h EXCEPT !.error = "ValueError"]
    ELSE IF parts[1] = <<H_VERSION>>
    THEN IF ~IsInt(parts[2]) THEN [h EXCEPT !.error = "ValueError"]
         ELSE IF ToInt(parts[2]) > native
         THEN [h EXCEPT !.error = "ValueError"]
         ELSE ReadHeader(fd, i + 1,
                  [h EXCEPT !.version = ToInt(parts[2]),
                            !.do_utf16_decode = @ \/ ToInt(parts[2]) > 1],
                  native)
    ELSE IF parts[1] \in {<<H_SVN_REVISION>>, <<H_DATE_REVISION>>}
    THEN IF ~IsInt(parts[2]) THEN [h EXCEPT !.error = "ValueError"]
         ELSE ReadHeader(fd, i + 1, h, native)
    ELSE IF parts[1] = <<H_FROM_MATLAB>>
    THEN ReadHeader(fd, i + 1, [h EXCEPT !.from_matlab = parts[2] # <<>>],
                    native)
    ELSE ReadHeader(fd, i + 1, h, native)

\* the header section, from line i on: the keywords up to the blank line.
\* h.next is the line after the blank one.
ReadHeader(fd, i, h, native) ==
    IF i > Len(fd) THEN [h EXCEPT !.error = "ValueError"]
    ELSE IF IsBlank(fd[i]) THEN [h EXCEPT !.next = i + 1]
    ELSE HeaderLine(fd, i, h, native, Split(fd[i], ":"))

\* a setting line whose value is decoded
RECURSIVE ReadSettings(_, _, _, _)
SettingValue(fd, i, do_utf16_decode, setting_values, setting) ==
    IF ~setting.ok
    THEN [ok |-> FALSE, next |-> i + 1, settings |-> setting_values]
    ELSE ReadSettings(fd, i + 1, do_utf16_decode,
             Append(setting_values,
                    IF do_utf16_decode THEN utf16decode(setting.s)
                    ELSE setting.s))

\* a setting line, split at its colons
SettingLine(fd, i, do_utf16_decode, setting_values, parts) ==
    IF Len(parts) # 2
    THEN [ok |-> FALSE, next |-> i + 1, settings |-> setting_values]
    ELSE SettingValue(fd, i, do_utf16_decode, setting_values,
                      StringUnescape(parts[2]))

\* the setting lines of a module, from line i on, up to a blank line or
\* the end of the file; not ok stands for the exception a line raises
ReadSettings(fd, i, do_utf16_decode, setting_values) ==
    IF i > Len(fd) THEN [ok |-> TRUE, next |-> i, settings |-> setting_values]
    ELSE IF IsBlank(fd[i])
    THEN [ok |-> TRUE, next |-> i + 1, settings |-> setting_values]
    ELSE SettingLine(fd, i, do_utf16_decode, setting_values,
                     Split(fd[i], ":"))

\* setattr(module, attribute, value)
SetAttr(mod, attribute, value) ==
    IF attribute = <<"show_window">> /\ value.kind = "bool"
    THEN [mod EXCEPT !.show_window = value.b]
    ELSE IF attribute = <<"notes">> /\ value.kind = "list"
    THEN [mod EXCEPT !.notes = value.l]
    ELSE mod

\* what the attribute loop leaves: not ok stands for the exception raised
Attributes(ok, mod, variable_revision_number) ==
    [ok |-> ok, module |-> mod,
     variable_revision_number |-> variable_revision_number]

\* an attribute and its evaluated value; vrn - variable_revision_number
RECURSIVE SetAttributes(_, _, _)
AttributeValue(mod, attribute_strings, vrn, attribute, value) ==
    IF ~value.ok THEN Attributes(FALSE, mod, vrn)
    ELSE IF attribute = <<"variable_revision_number">>
    THEN SetAttributes(mod, Tail(attribute_strings), value.n)
    ELSE IF attribute \in {<<"svn_version">>, <<"module_num">>}
    THEN SetAttributes(mod, Tail(attribute_strings), vrn)
    ELSE SetAttributes(SetAttr(mod, attribute, value), Tail(attribute_strings), vrn)

\* an attribute and its decoded text; vrn - variable_revision_number
AttributeText(mod, attribute_strings, vrn, attribute, text) ==
    IF ~text.ok THEN Attributes(FALSE, mod, vrn)
    ELSE AttributeValue(mod, attribute_strings, vrn, attribute, Eval(text.s))

\* an attribute string, split at its colons
AttributeString(mod, attribute_strings, variable_revision_number, parts) ==
    IF Len(parts) # 2 THEN Attributes(FALSE, mod, variable_revision_number)
    ELSE AttributeText(mod, attribute_strings, variable_revision_number,
                       parts[1], StringUnescape(parts[2]))

\* the loop over the attribute strings of a module header
SetAttributes(mod, attribute_strings, variable_revision_number) ==
    IF attribute_strings = <<>>
    THEN Attributes(TRUE, mod, variable_revision_number)
    ELSE AttributeString(mod, attribute_strings, variable_revision_number,
                         Split(Head(attribute_strings), ":"))

\* what one pass of the module loop leaves
\* raised - the try block raised; has_module - module is not None;
\* next - the line the loop reads next
Pass(raised, has_module, mod, module_name, setting_values, next) ==
    [raised |-> raised, has_module |-> has_module, module |-> mod,
     module_name |-> module_name, settings |-> setting_values, next |-> next]

\* the try block from the check of variable_revision_number on
ModuleAttributed(s, name, a) ==
    IF ~a.ok \/ a.variable_revision_number = None
    THEN Pass(TRUE, TRUE, a.module, name, s.settings, s.next)
    ELSE Pass(FALSE, TRUE, set_settings_from_values(a.module, s.settings),
              name, s.settings, s.next)

\* the try block from the check of the attribute string on
ModuleMade(attribute_string, s, name, mod) ==
    IF \/ Len(attribute_string) < 2
       \/ attribute_string[1] # "["
       \/ Last(attribute_string) # "]"
    THEN Pass(TRUE, TRUE, mod, name, s.settings, s.next)
    ELSE ModuleAttributed(s, name,
             SetAttributes(mod,
                 Split(SubSeq(attribute_string, 2, Len(attribute_string) - 1),
                       "|"),
                 None))

\* the try block from instantiate_module on
ModuleNamed(module_number, module_name, attribute_string, s, name) ==
    IF ~name.ok
    THEN Pass(TRUE, FALSE, NoModule, module_name, s.settings, s.next)
    ELSE IF ~Known(name.s)
    THEN Pass(TRUE, FALSE, NoModule, name.s, s.settings, s.next)
    ELSE ModuleMade(attribute_string, s, name.s,
             [instantiate_module(name.s) EXCEPT !.module_num = module_number])

\* the try block from the end of the settings loop on
ModuleSettings(module_number, module_name, attribute_string, s) ==
    IF ~s.ok
    THEN Pass(TRUE, FALSE, NoModule, module_name, s.settings, s.next)
    ELSE ModuleNamed(module_number, module_name, attribute_string, s,
                     StringUnescape(module_name))

\* the try block from the split of the header line on
ModuleLine(fd, i, module_number, h, line, split_loc) ==
    IF split_loc = -1
    THEN Pass(TRUE, FALSE, NoModule, <<>>, <<>>, i + 1)
    ELSE ModuleSettings(module_number, Strip(PyTo(line, split_loc)),
                        PyFrom(line, split_loc + 1),
                        ReadSettings(fd, i + 1, h.do_utf16_decode, <<>>))

\* one pass of the module loop, the header at line i: the try block
ReadModule(fd, i, module_number, h) ==
    ModuleLine(fd, i, module_number, h, fd[i], Find(fd[i], ":"))

\* the module loop after the try block of a pass, r what the pass left
RECURSIVE LoadModules(_, _, _, _, _, _, _, _)
ModuleRead(fd, new_modules, evs, parsed, h, raise_on_error, keep_going, r) ==
    LET appended == IF r.has_module THEN Append(new_modules, r.module)
                    ELSE new_modules
        event == [LoadExceptionEvent(r.module_name, r.settings)
                    EXCEPT !.cancel_run = ~keep_going]
    IN IF ~r.raised
       THEN LoadModules(fd, r.next, appended, evs, parsed + 1, h,
                        raise_on_error, keep_going)
       ELSE IF raise_on_error
       THEN [raised |-> TRUE, new_modules |-> new_modules, events |-> evs,
             parsed |-> parsed + 1]
       ELSE IF event.cancel_run
       THEN [raised |-> FALSE, new_modules |-> new_modules,
             events |-> Append(evs, event), parsed |-> parsed + 1]
       ELSE LoadModules(fd, r.next, appended, Append(evs, event),
                        parsed + 1, h, raise_on_error, keep_going)

\* the module section as it would be, were module_number to count the
\* records read and not the modules made
LoadModules_numbering_records(fd, i, new_modules, evs, parsed, h, raise_on_error, keep_going) ==
    IF i > Len(fd)
    THEN [raised |-> FALSE, new_modules |-> new_modules, events |-> evs,
          parsed |-> parsed]
    ELSE ModuleRead(fd, new_modules, evs, parsed, h, raise_on_error,
                    keep_going, ReadModule(fd, i, parsed + 1, h))

\* the module section, from line i on
\* raise_on_error - the argument of loadtxt
\* keep_going - the listeners clear cancel_run of a LoadExceptionEvent
\* parsed - the module records read
LoadModules(fd, i, new_modules, evs, parsed, h, raise_on_error, keep_going) ==
    IF i > Len(fd)
    THEN [raised |-> FALSE, new_modules |-> new_modules, events |-> evs,
          parsed |-> parsed]
    ELSE ModuleRead(fd, new_modules, evs, parsed, h, raise_on_error,
                    keep_going, ReadModule(fd, i, Len(new_modules) + 1, h))

\* the end of loadtxt: the modules read replace those of the pipeline
\* r - what the module section left
Install(p, r) ==
    IF r.raised
    THEN [p |-> Raise(p, "ValueError"), parsed |-> r.parsed]
    ELSE [p |-> [p EXCEPT
                    !.objs = [i \in Ids |-> IF i <= Len(r.new_modules)
                                            THEN r.new_modules[i]
                                            ELSE NoModule],
                    !.modules = [k \in 1..Len(r.new_modules) |-> k],
                    !.settings = [k \in 1..Len(r.new_modules) |->
                                     r.new_modules[k].settings],
                    !.events = r.events \o <<Event("PipelineLoaded", 0, "")>>,
                    !.undo_stack = <<>>],
          parsed |-> r.parsed]

\* loadtxt after the header section, h what the header section left
HeaderRead(p, fd, raise_on_error, keep_going, h) ==
    IF h.error # NoError
    THEN [p |-> Raise(p, h.error), parsed |-> 0]
    ELSE Install(p, LoadModules(fd, h.next, <<>>, <<>>, 0, h, raise_on_error,
                                keep_going))

\* loadtxt for a reader whose format version is native
\* p - the pipeline and the module objects the modules of the file replace
LoadTxtAs(p, fd, raise_on_error, keep_going, native) ==
    IF fd = <<>> \/ fd[1] # <<COOKIE>>
    THEN [p |-> Raise(p, "NotImplementedError"), parsed |-> 0]
    ELSE HeaderRead(p, fd, raise_on_error, keep_going,
             ReadHeader(fd, 2,
                 [error |-> NoError, next |-> 0, version |-> NATIVE_VERSION,
                  from_matlab |-> FALSE, do_utf16_decode |-> FALSE], native))

\* loadtxt as it would be, were no version too new
loadtxt_any_version(p, fd, raise_on_error, keep_going) ==
    LoadTxtAs(p, fd, raise_on_error, keep_going, 9)

\* pipeline.loadtxt(fd, raise_on_error), the listeners answering a
\* LoadExceptionEvent as keep_going says
loadtxt(p, fd, raise_on_error, keep_going) ==
    LoadTxtAs(p, fd, raise_on_error, keep_going, NATIVE_VERSION)

\* pipeline.load(fd): a file that starts with the cookie is of the text
\* format; any other goes to the reader of .MAT files, which fails on it
load(p, fd, keep_going) ==
    IF fd # <<>> /\ fd[1] # <<>> /\ fd[1][1] = COOKIE
    THEN loadtxt(p, fd, FALSE, keep_going)
    ELSE [p |-> notify_listeners(p, LoadExceptionEvent(<<>>, <<>>)),
          parsed |-> 0]

\* Pipeline()
Pipeline ==
    [objs |-> [i \in Ids |-> NoModule], modules |-> <<>>, settings |-> <<>>,
     undo_stack |-> <<>>, undo_start |-> NoStart, events |-> <<>>,
     error |-> NoError]

\* pipeline.copy(): the new pipeline, as load left it
copy(p, keep_going) == load(Pipeline, savetxt(p), keep_going)

\* ------------------------------------------------------------------------
\* The module editor: the calls a user of a Pipeline makes
\* ------------------------------------------------------------------------
\* the modules a closure holds
RECURSIVE Held(_)
Held(stack) ==
    IF stack = <<>> THEN {}
    ELSE LET c == Head(stack)
         IN (IF c.kind \in {"remove_module", "add_module", "move_module"}
             THEN {c.m} ELSE {})
            \cup {c.mods[k] : k \in 1..Len(c.mods)}
            \cup Held(c.acts) \cup Held(Tail(stack))

\* the closures of a stack, those inside composites counted one by one
RECURSIVE Closures(_)
Closures(stack) ==
    IF stack = <<>> THEN 0
    ELSE (IF Head(stack).kind = "composite" THEN Closures(Head(stack).acts)
          ELSE 1) + Closures(Tail(stack))

\* the modules something still refers to
Alive(p) == {p.modules[k] : k \in 1..Len(p.modules)} \cup Held(p.undo_stack)

\* a module no longer referred to is freed
Collect(p) ==
    [p EXCEPT !.objs = [i \in Ids |-> IF i \in Alive(p) THEN p.objs[i]
                                      ELSE NoModule]]

\* the place of a new module object
NewId(p) == CHOOSE i \in Ids \ Alive(p) : \A j \in Ids \ Alive(p) : i <= j

\* a module as its factory makes it, the caller having set its number
NewModule(name, module_num, values) ==
    [module_name |-> name, module_num |-> module_num, settings |-> values,
     variable_revision_number |-> 1, show_window |-> TRUE, notes |-> <<>>]

\* what the claims compare: the modules in order, their numbers and their
\* setting values
ViewOf(p) ==
    [k \in 1..Len(p.modules) |->
        [m |-> p.modules[k],
         module_num |-> p.objs[p.modules[k]].module_num,
         settings |-> p.objs[p.modules[k]].settings]]
View == ViewOf(Self)

NoBracket ==
    [phase |-> "none", view |-> <<>>, stack |-> <<>>, k |-> 0,
     before |-> <<>>, name |-> ""]

MutatingCalls ==
    {"add_module", "remove_module", "move_module", "edit_module", "clear"}
\* the name in the history of an undo() whose action raised
UndoRaised == "undo raised"

\* the history kept of a call: its name and, for a call that changes the
\* module list, the module list before it; for an undo, the call it came
\* after, the module list before that call, and whether that call had
\* changed the module list
LastOf(op) ==
    IF op = "undo"
    THEN [op |-> op, undone |-> last.op, before |-> last.before,
          changed |-> View # last.before]
    ELSE [op |-> op, undone |-> "",
          before |-> IF op \in MutatingCalls THEN View ELSE <<>>,
          changed |-> FALSE]

\* the entries from before start_undoable_action that a call leaves on
\* the undo stack: all after the start, none counted once the bracket is
\* stopped, and no more than the stack has been short since the start
HeldOf(op, stack) ==
    IF op = "start_undoable_action" THEN Len(stack)
    ELSE IF op = "stop_undoable_action" \/ held = NoStart THEN NoStart
    ELSE Min(held, Len(stack))

BracketOf(op, name) ==
    CASE op = "start_undoable_action" ->
            [phase |-> "open", view |-> View, stack |-> undo_stack, k |-> 0,
             before |-> <<>>, name |-> ""]
      [] op \in MutatingCalls /\ bracket.phase = "open" ->
            [bracket EXCEPT !.k = @ + 1]
      [] op = "stop_undoable_action" /\ bracket.phase = "open" ->
            [bracket EXCEPT !.phase = "stopped", !.before = undo_stack,
                            !.name = name]
      [] op = "undo" /\ bracket.phase = "stopped" ->
            [bracket EXCEPT !.phase = "undone", !.before = <<>>]
      [] OTHER -> NoBracket

\* the last call of get_measurement_columns since the pipeline was changed:
\* none
NoGot == [called |-> FALSE]
\* the cache of a new pipeline: self.__measurement_columns = {} and
\* self.__measurement_column_hash = None
NoCache ==
    [measurement_columns |-> <<>>, measurement_column_hash |-> <<"None">>,
     got |-> NoGot]

\* the call returns (or raises): the pipeline is as the call left it
Return(q, op, name) ==
    /\ objs' = Collect(q).objs
    /\ modules' = q.modules
    /\ settings' = q.settings
    /\ undo_stack' = q.undo_stack
    /\ undo_start' = q.undo_start
    /\ events' = q.events
    /\ error' = q.error
    /\ last' = LastOf(op)
    /\ bracket' = BracketOf(op, name)
    /\ held' = HeldOf(op, q.undo_stack)
    /\ cache' = [cache EXCEPT !.got = NoGot]
    /\ UNCHANGED <<codecVars, runVars, graphVars, propVars, runnerVars>>

CanPush == Closures(undo_stack) < MaxUndo

\* pipeline.add_module(module), the module new and numbered by the caller
AddModule ==
    /\ CanPush
    /\ Cardinality(Alive(Self)) < MaxModules
    /\ \E module_num \in 1..(Len(modules) + 1), v \in EditValues :
        LET m == NewId(Self)
            new == NewModule(<<"M">>, module_num, <<v>>)
        IN Return(add_module([Self EXCEPT !.objs[m] = new], m),
                  "add_module", "")

\* pipeline.remove_module(module_num)
RemoveModule ==
    /\ CanPush
    /\ \E module_num \in 1..Len(modules) :
        Return(remove_module(Self, module_num), "remove_module", "")

\* pipeline.move_module(module_num, direction)
MoveModule ==
    /\ CanPush
    /\ \E module_num \in 1..Len(modules) :
        \/ /\ module_num < Len(modules)
           /\ Return(move_module(Self, module_num, DIRECTION_DOWN),
                     "move_module", "")
        \/ /\ module_num > 1
           /\ Return(move_module(Self, module_num, DIRECTION_UP),
                     "move_module", "")

\* a direction that is neither DIRECTION_UP nor DIRECTION_DOWN
Sideways == "sideways"

\* the moves that cannot be made: the first module up, the last module
\* down, and any module in an unknown direction
Refused ==
    {<<1, DIRECTION_UP>>, <<Len(modules), DIRECTION_DOWN>>}
        \cup {<<module_num, Sideways>> : module_num \in 1..Len(modules)}

\* the history kept of a call that was refused
RefusedCall == "move_module refused"

\* pipeline.move_module(module_num, direction) for a move that cannot be
\* made
MoveModuleRefused ==
    /\ modules # <<>>
    /\ \E move \in Refused :
        /\ objs' = Collect(move_module(Self, move[1], move[2])).objs
        /\ modules' = move_module(Self, move[1], move[2]).modules
        /\ settings' = move_module(Self, move[1], move[2]).settings
        /\ undo_stack' = move_module(Self, move[1], move[2]).undo_stack
        /\ undo_start' = move_module(Self, move[1], move[2]).undo_start
        /\ events' = move_module(Self, move[1], move[2]).events
        /\ error' = move_module(Self, move[1], move[2]).error
    /\ last' = [op |-> RefusedCall, undone |-> "", before |-> <<>>,
                changed |-> FALSE]
    /\ bracket' = IF bracket.phase = "open" THEN bracket ELSE NoBracket
    /\ held' = held
    /\ UNCHANGED <<codecVars, runVars, graphVars, propVars, colVars, runnerVars>>

\* the history kept of a call with a position outside the module list
OutsideCall == "position outside"

\* the call returns (or raises), the position it was given outside the list
ReturnOutside(q) ==
    /\ objs' = Collect(q).objs
    /\ modules' = q.modules
    /\ settings' = q.settings
    /\ undo_stack' = q.undo_stack
    /\ undo_start' = q.undo_start
    /\ events' = q.events
    /\ error' = q.error
    /\ last' = [op |-> OutsideCall, undone |-> "", before |-> <<>>,
                changed |-> FALSE]
    /\ bracket' = NoBracket
    /\ held' = NoStart
    /\ UNCHANGED <<codecVars, runVars, graphVars, propVars, colVars, runnerVars>>

\* no call with a position outside the list has been made on the pipeline:
\* the modules are numbered from 1 and each has its recorded settings
Numbered ==
    /\ Len(settings) = Len(modules)
    /\ \A k \in 1..Len(modules) : objs[modules[k]].module_num = k

\* pipeline.add_module(module), the module numbered 0 or past len + 1
AddModuleOutside ==
    /\ Numbered
    /\ CanPush
    /\ Cardinality(Alive(Self)) < MaxModules
    /\ \E module_num \in {0, Len(modules) + 2}, v \in EditValues :
        LET m == NewId(Self)
            new == NewModule(<<"M">>, module_num, <<v>>)
        IN ReturnOutside(add_module([Self EXCEPT !.objs[m] = new], m))

\* pipeline.remove_module(module_num), module_num 0 or past len
RemoveModuleOutside ==
    /\ Numbered
    /\ CanPush
    /\ \E module_num \in {0, Len(modules) + 1} :
        ReturnOutside(remove_module(Self, module_num))

\* the user edits a setting of a module: setting.value = v, then
\* pipeline.edit_module(module_num)
EditModule ==
    /\ CanPush
    /\ \E module_num \in 1..Len(modules), v \in EditValues :
        LET m == modules[module_num]
        IN Return(edit_module([Self EXCEPT !.objs[m].settings = <<v>>],
                              module_num),
                  "edit_module", "")

\* pipeline.undo()
Undo == Return(undo(Self, FALSE), "undo", "")

\* pipeline.undo(), the action raising
UndoRaises ==
    /\ undo_stack # <<>>
    /\ Last(undo_stack).kind = "edit_module"
    /\ Return(undo(Self, TRUE), UndoRaised, "")

\* pipeline.clear(), the first on the pipeline: clear leaves the recorded
\* settings of the modules it removes where they are
Clear ==
    /\ Numbered
    /\ CanPush
    /\ modules # <<>>
    /\ Return(clear(Self), "clear", "")

\* pipeline.start_undoable_action()
StartUndoableAction ==
    /\ undo_start # Len(undo_stack)
    /\ Return(start_undoable_action(Self), "start_undoable_action", "")

\* pipeline.stop_undoable_action(name)
StopUndoableAction ==
    /\ bracket.phase = "open"
    /\ \E name \in {"Composite edit"} :
        Return(stop_undoable_action(Self, name), "stop_undoable_action", name)

\* pipeline.stop_undoable_action(name), whatever was called since the
\* start_undoable_action
StopAfterAny ==
    /\ held # NoStart
    /\ \E name \in {"Composite edit"} :
        Return(stop_undoable_action(Self, name), "stop_undoable_action", name)

\* ------------------------------------------------------------------------
\* Saving and loading
\* ------------------------------------------------------------------------
\* the modules a pipeline may hold when it is saved
CodecModules ==
    {[module_name |-> <<"Align">>, module_num |-> 0,
      settings |-> << <<"z">> >>,
      variable_revision_number |-> RevisionOf("Align"),
      show_window |-> TRUE, notes |-> <<>>],
     [module_name |-> <<"Align">>, module_num |-> 0,
      settings |-> << <<":", "|", "[", "]">>, <<>> >>,
      variable_revision_number |-> RevisionOf("Align"),
      show_window |-> FALSE, notes |-> << <<":", "|">> >>],
     [module_name |-> <<"Crop">>, module_num |-> 0,
      settings |-> << <<BS, "x", "3", "A">>, <<"'", "\n", BS>> >>,
      variable_revision_number |-> RevisionOf("Crop"),
      show_window |-> TRUE, notes |-> << <<BS>>, <<"[">> >>],
     [module_name |-> <<"Crop">>, module_num |-> 0,
      settings |-> <<>>,
      variable_revision_number |-> RevisionOf("Crop"),
      show_window |-> FALSE, notes |-> << <<"z">> >>]}

\* the format versions of the files of other releases
OtherVersions == {1, 3}

\* what a pipeline file persists of a pipeline: per module, in order, its
\* name, its setting values and its attributes
Persisted(p) ==
    [k \in 1..Len(p.modules) |->
        [module_name |-> p.objs[p.modules[k]].module_name,
         settings |-> p.objs[p.modules[k]].settings,
         variable_revision_number |->
             p.objs[p.modules[k]].variable_revision_number,
         show_window |-> p.objs[p.modules[k]].show_window,
         notes |-> p.objs[p.modules[k]].notes]]

\* the history kept of a save or a load: the call, the version the file
\* claimed, the module records the call read, and the pipeline before it
\* damage - for a file with a module record that cannot be restored: what
\* is wrong with it, its place k among the records and the records
NoDamage == [kind |-> "none", k |-> 0, records |-> <<>>]
IOOf(op, version, parsed) ==
    [op |-> op, version |-> version, parsed |-> parsed, objs |-> objs,
     modules |-> modules, undo_stack |-> undo_stack, damage |-> io.damage]
NoIO ==
    [op |-> "none", version |-> 0, parsed |-> 0,
     objs |-> [i \in Ids |-> NoModule], modules |-> <<>>,
     undo_stack |-> <<>>, damage |-> NoDamage]

\* the version a file claims: what its second line says
VersionOf(f) == IF Len(f) >= 2 /\ Len(f[2]) = 3 /\ IsInt(<<f[2][3]>>)
                THEN ToInt(<<f[2][3]>>) ELSE 0

\* pipeline.add_module(module) at the end of the list, before any file is
\* written
AddSavedModule ==
    /\ file = <<>>
    /\ CanPush
    /\ Len(modules) < MaxSaved
    /\ Cardinality(Alive(Self)) < MaxModules
    /\ \E mod \in CodecModules :
        LET m == NewId(Self)
            new == [mod EXCEPT !.module_num = Len(modules) + 1]
        IN Return(add_module([Self EXCEPT !.objs[m] = new], m),
                  "add_module", "")

\* pipeline.savetxt(fd), once the pipeline is built
SaveTxt ==
    /\ file = <<>>
    /\ file' = savetxt(Self)
    /\ io' = IOOf("savetxt", NATIVE_VERSION, 0)
    /\ UNCHANGED <<pipeVars, histVars, other, runVars, graphVars, propVars, colVars, runnerVars>>

\* a release of another format version wrote the file
SaveOtherVersion ==
    /\ io.op = "savetxt"
    /\ \E version \in OtherVersions :
        /\ file' = SaveLines(Self, version)
        /\ io' = IOOf("save_other", version, 0)
    /\ UNCHANGED <<pipeVars, histVars, other, runVars, graphVars, propVars, colVars, runnerVars>>

\* what may be wrong with a module record: its header names no
\* variable_revision_number, its attributes do not end with a bracket, no
\* module has its name, its first setting line has a colon too many
Damages == {"no_revision", "bad_attributes", "unknown_module", "bad_setting"}

\* the header of a module without the variable_revision_number
HeaderWithoutRevision(mod) ==
    LET attributes == <<"module_num", "svn_version", "show_window", "notes",
                        "batch_state">>
        attribute_values ==
            <<FromInt(mod.module_num), FromInt(0), ReprBool(mod.show_window),
              ReprList(mod.notes), ReprBatchState>>
        attribute_strings ==
            [k \in 1..5 |-> <<attributes[k], ":">> \o encode_txt(attribute_values[k])]
    IN encode_txt(mod.module_name) \o <<":", "[">>
       \o Join(attribute_strings, "|") \o <<"]">>

\* the lines of a module record with something wrong
DamagedRecord(mod, kind) ==
    << <<>>,
       CASE kind = "no_revision" -> HeaderWithoutRevision(mod)
         [] kind = "bad_attributes" -> Front(ModuleHeader(mod))
         [] kind = "unknown_module" ->
                ModuleHeader([mod EXCEPT !.module_name = <<"Nope">>])
         [] OTHER -> ModuleHeader(mod) >>
    \o (IF kind = "bad_setting"
        THEN << <<Indent, "text", ":", "a", ":", "b">> >> ELSE <<>>)
    \o SettingLines(mod)

\* the lines of a pipeline file whose k-th module record has something wrong
DamagedLines(p, k, kind) ==
    << <<COOKIE>>, <<H_VERSION, ":">> \o FromInt(NATIVE_VERSION),
       <<H_DATE_REVISION, ":", VersionNumber>> >>
    \o Flat([j \in 1..Len(p.modules) |->
                IF j = k THEN DamagedRecord(p.objs[p.modules[j]], kind)
                ELSE << <<>>, ModuleHeader(p.objs[p.modules[j]]) >>
                     \o SettingLines(p.objs[p.modules[j]])])

\* the file of the pipeline comes back edited: one of its module records
\* cannot be restored
SaveDamaged ==
    /\ io.op = "savetxt"
    /\ \E k \in 1..Len(modules), kind \in Damages :
        /\ file' = DamagedLines(Self, k, kind)
        /\ io' = [IOOf("save_damaged", NATIVE_VERSION, 0) EXCEPT
                     !.damage = [kind |-> kind, k |-> k,
                                 records |-> Persisted(Self)]]
    /\ UNCHANGED <<pipeVars, histVars, other, runVars, graphVars, propVars, colVars, runnerVars>>

\* other = pipeline.copy()
Copy ==
    /\ \E keep_going \in BOOLEAN :
        other' = copy(Self, keep_going).p
    /\ io' = IOOf("copy", NATIVE_VERSION, 0)
    /\ UNCHANGED <<pipeVars, histVars, file, runVars, graphVars, propVars, colVars, runnerVars>>

\* the load returns (or raises): the pipeline is as the load left it
Loaded(r) ==
    /\ objs' = r.p.objs
    /\ modules' = r.p.modules
    /\ settings' = r.p.settings
    /\ undo_stack' = r.p.undo_stack
    /\ undo_start' = r.p.undo_start
    /\ events' = r.p.events
    /\ error' = r.p.error
    /\ last' = LastOf("load")
    /\ bracket' = BracketOf("load", "")
    /\ held' = NoStart
    /\ io' = IOOf("load", VersionOf(file), r.parsed)
    /\ UNCHANGED <<file, other, runVars, graphVars, propVars, colVars, runnerVars>>

\* pipeline.load(fd), fd the file written before
Load ==
    /\ file # <<>>
    /\ \E keep_going \in BOOLEAN :
        Loaded(load(Self, file, keep_going))

\* ------------------------------------------------------------------------
\* The run: Pipeline.run_with_yield and the hooks it calls
\* ------------------------------------------------------------------------
DISPOSITION_CONTINUE == "Continue"
DISPOSITION_PAUSE == "Pause"
DISPOSITION_SKIP == "Skip"
DISPOSITION_CANCEL == "Cancel"
Dispositions ==
    {DISPOSITION_CONTINUE, DISPOSITION_PAUSE, DISPOSITION_SKIP,
     DISPOSITION_CANCEL}
\* no Exit_Status is recorded
NoStatus == ""

\* hook - the method of the module that raised (the event's traceback)
RunExceptionEvent(hook, module_num, cancel_run, skip_thisset) ==
    [type |-> "RunException", module_num |-> module_num, direction |-> "",
     hook |-> hook, cancel_run |-> cancel_run, skip_thisset |-> skip_thisset]
EndRunEvent == Event("EndRun", 0, "")

\* module.is_interactive(), by the class of the module
is_interactive(mod) == mod.module_name = <<"Crop">>
\* module.should_stop_writing_measurements(), by the class of the module
should_stop_writing_measurements(mod) ==
    mod.module_name = <<"CreateBatchFiles">>

\* measurements.get_image_numbers() after prepare_run
Images == [n \in 1..MaxImages |-> n]
\* the one group of a pipeline without a grouping module, were its first
\* image number left out
DefaultGroupings_but_first(image_numbers) ==
    << [keys |-> "()",
        image_numbers |-> SubSeq(image_numbers, 2, Len(image_numbers))] >>

\* what get_groupings returns for a pipeline without a grouping module:
\* one group, of the image numbers of the measurements
DefaultGroupings(image_numbers) ==
    << [keys |-> "()", image_numbers |-> image_numbers] >>
\* the groups of a grouping module: one after the other, or interleaved
Blocks ==
    << [keys |-> "A", image_numbers |-> SubSeq(Images, 1, MaxImages - 1)],
       [keys |-> "B", image_numbers |-> <<MaxImages>>] >>
Interleaved ==
    << [keys |-> "A",
        image_numbers |-> [j \in 1..((MaxImages + 1) \div 2) |-> 2 * j - 1]],
       [keys |-> "B",
        image_numbers |-> [j \in 1..(MaxImages \div 2) |-> 2 * j]] >>
Groups == 1..Len(Blocks)

\* the grouping argument: None, or a dictionary of these keys and that value
NoGrouping == [given |-> FALSE, keys |-> {}, value |-> ""]
Grouping(keys, value) == [given |-> TRUE, keys |-> keys, value |-> value]

\* the modules that report groupings, what the first of them reports, and
\* the grouping asked for
Scenario(groupers, key_names, groupings, grouping) ==
    [groupers |-> groupers, key_names |-> key_names, groupings |-> groupings,
     grouping |-> grouping]
Scenarios ==
    {Scenario(0, {}, <<>>, NoGrouping),
     Scenario(0, {}, <<>>, Grouping({"Row"}, "A")),
     Scenario(1, {"Row"}, Blocks, NoGrouping),
     Scenario(1, {"Row"}, Interleaved, NoGrouping),
     Scenario(1, {"Row"}, Interleaved, Grouping({"Row"}, "A")),
     Scenario(1, {"Row"}, Blocks, Grouping({"Row"}, "B")),
     Scenario(1, {"Row"}, Blocks, Grouping({"Row"}, "Z")),
     Scenario(1, {"Row"}, Blocks, Grouping({"Column"}, "A")),
     Scenario(2, {"Row"}, Blocks, NoGrouping),
     Scenario(2, {"Row"}, Blocks, Grouping({"Row"}, "A"))}

\* run (headless or with a frame) and run_with_yield of the user interface
Modes ==
    {[run_in_background |-> FALSE, frame |-> FALSE],
     [run_in_background |-> FALSE, frame |-> TRUE],
     [run_in_background |-> TRUE, frame |-> TRUE]}

NoArguments ==
    [run_in_background |-> FALSE, frame |-> FALSE, image_set_start |-> 1,
     image_set_end |-> None, groupers |-> 0, key_names |-> {},
     groupings |-> <<>>, grouping |-> NoGrouping]

\* a ModuleRunner
\* alive - there is one; running - module.run is under way on its thread;
\* done - the done events it has posted
NoWorker ==
    [alive |-> FALSE, running |-> FALSE, paused |-> FALSE,
     exited_run |-> FALSE, exception |-> FALSE, done |-> 0]

\* the generator group(workspace) before its first resumption
NoGen == [started |-> FALSE, g |-> 1, i |-> 1, need |-> TRUE]

\* has_measurements - measurements is not None
\* k - the place of module in the module list
NoLocals ==
    [gen |-> NoGen, group_number |-> 0, group_index |-> 0, image_number |-> 0,
     k |-> 0, has_measurements |-> TRUE, should_write_measurements |-> TRUE,
     disposition |-> DISPOSITION_CONTINUE, exception |-> FALSE,
     worker |-> NoWorker]

\* the measurements: the Exit_Status, whether the file is up to date, the
\* ModuleError and ExecutionTime of the modules for the current image set
\* (None where not recorded), and the image numbers of the store
\* (get_image_numbers)
NoMeasurements ==
    [exit_status |-> NoStatus, flushed |-> FALSE, image_number |-> 0,
     ModuleError |-> <<>>, ExecutionTime |-> <<>>, image_numbers |-> <<>>]

\* measurements.next_image_set(image_number)
next_image_set(m, image_number, n) ==
    [m EXCEPT !.image_number = image_number, !.flushed = FALSE,
              !.ModuleError = [k \in 1..n |-> None],
              !.ExecutionTime = [k \in 1..n |-> None]]

\* measurements.add_experiment_measurement(EXIT_STATUS, status)
add_exit_status(m, status) ==
    [m EXCEPT !.exit_status = status, !.flushed = FALSE]

\* a module.run: its group, the place of its image set in the group, the
\* place of the module, and, when it started, the prepare_group and
\* post_group calls of its group so far, the module.run under way and the
\* module whose step was the last to be finished
NoCall ==
    [g |-> 0, i |-> 0, k |-> 0, prepared |-> 0, posted |-> 0, running |-> 0,
     after |-> 0]
\* an image set: its group, its place in the group and its image number
NoImageSet == [g |-> 0, i |-> 0, n |-> 0]
\* a module's step: whether module.run raised, what the listeners answered
\* and what was recorded
NoStep ==
    [k |-> 0, raised |-> FALSE, recorded |-> FALSE, failure |-> 0,
     delta_sec |-> 0, events |-> 0, cancel_run |-> FALSE,
     skip_thisset |-> FALSE]
NoHistory ==
    [outcome |-> "", prepare_runs |-> 0, prev |-> NoCall, cur |-> NoCall,
     set_prev |-> NoImageSet, set_cur |-> NoImageSet,
     prepared |-> [g \in Groups |-> 0], posted |-> [g \in Groups |-> 0],
     open |-> {}, post_runs |-> 0, step |-> NoStep, cancel_set |-> FALSE,
     after_cancel |-> 0, skip_answered |-> FALSE, end_runs |-> 0,
     running |-> 0, cancelled |-> "", post_run_calls |-> <<>>,
     processed |-> <<>>, after_end |-> 0, prepare |-> "",
     prepare_notified |-> 0, call |-> 1]

\* the workspace of a run: the arguments of the run and the image numbers
\* of its measurements
Workspace(c, m) ==
    [f \in DOMAIN c \cup {"image_numbers"} |->
        IF f = "image_numbers" THEN m.image_numbers ELSE c[f]]

\* get_groupings as it would be, did it take the groupings of the first
\* module that reports any
get_groupings_of_first(w) ==
    [error |-> NoError,
     keys |-> IF w.groupers = 0 THEN {} ELSE w.key_names,
     groupings |-> IF w.groupers = 0 THEN DefaultGroupings(w.image_numbers)
                   ELSE w.groupings]

\* Pipeline.get_groupings: two modules that report groupings are an error,
\* and with none the image numbers of the measurements are one group
get_groupings(w) ==
    [error |-> IF w.groupers > 1 THEN "ValueError" ELSE NoError,
     keys |-> IF w.groupers = 0 THEN {} ELSE w.key_names,
     groupings |-> IF w.groupers = 0 THEN DefaultGroupings(w.image_numbers)
                   ELSE w.groupings]

\* the workspace with the key names and groups that get_groupings returns
Resolved(w) ==
    [w EXCEPT !.key_names = get_groupings(w).keys,
              !.groupings = get_groupings(w).groupings]

\* the image numbers left in the measurements when those out of range and
\* those of the groups not asked for are removed
Remaining(w) ==
    SelectSeq(w.image_numbers,
        LAMBDA n :
            /\ n >= w.image_set_start
            /\ w.image_set_end = None \/ n <= w.image_set_end
            /\ w.grouping.given =>
                \A g \in 1..Len(get_groupings(w).groupings) :
                    \/ get_groupings(w).groupings[g].keys = w.grouping.value
                    \/ \A i \in 1..Len(get_groupings(w).groupings[g].image_numbers) :
                        get_groupings(w).groupings[g].image_numbers[i] # n)

\* grouping is None or grouping == grouping_keys
Matches(c, g) ==
    ~c.grouping.given \/ c.grouping.value = c.groupings[g].keys

\* the test of the range as it would be without image_set_end
InRange_from_start(c, image_number) == image_number >= c.image_set_start

\* image_set_start <= image_number <= image_set_end
InRange(c, image_number) ==
    /\ image_number >= c.image_set_start
    /\ c.image_set_end = None \/ image_number <= c.image_set_end

\* the two loops of group, resumed in state gen: what they yield next and
\* the state they are left in
RECURSIVE group_loops(_, _)
group_loops(c, gen) ==
    IF gen.g > Len(c.groupings) THEN [kind |-> "stop", gen |-> gen]
    ELSE IF ~Matches(c, gen.g)
    THEN group_loops(c, [gen EXCEPT !.g = @ + 1, !.i = 1, !.need = TRUE])
    ELSE IF gen.i > Len(c.groupings[gen.g].image_numbers)
    THEN IF ~gen.need
         THEN [kind |-> "post_group", group_number |-> gen.g,
               gen |-> [gen EXCEPT !.g = @ + 1, !.i = 1, !.need = TRUE]]
         ELSE group_loops(c, [gen EXCEPT !.g = @ + 1, !.i = 1, !.need = TRUE])
    ELSE IF ~InRange(c, c.groupings[gen.g].image_numbers[gen.i])
    THEN group_loops(c, [gen EXCEPT !.i = @ + 1])
    ELSE [kind |-> "image", group_number |-> gen.g, group_index |-> gen.i,
          image_number |-> c.groupings[gen.g].image_numbers[gen.i],
          prepare |-> gen.need,
          gen |-> [gen EXCEPT !.i = @ + 1, !.need = FALSE]]

\* group as it would be, did it forget that the group is prepared
group_preparing_each(c, gen) ==
    IF ~gen.started /\ get_groupings(c).error # NoError
    THEN [kind |-> "raise", gen |-> gen]
    ELSE IF /\ ~gen.started
            /\ c.grouping.given
            /\ get_groupings(c).keys # c.grouping.keys
    THEN [kind |-> "raise", gen |-> gen]
    ELSE group_loops(Resolved(c), [gen EXCEPT !.started = TRUE, !.need = TRUE])

\* group as it would be, did it take the image sets from the last to the
\* first
group_backwards(c, gen) ==
    group_loops([c EXCEPT !.groupings =
                    [g \in 1..Len(Resolved(c).groupings) |->
                        [Resolved(c).groupings[g] EXCEPT
                            !.image_numbers = Reversed(@)]]],
                [gen EXCEPT !.started = TRUE])

\* group as it would be, did it not compare the keys of the grouping asked
\* for with those of the pipeline
group_unchecked(c, gen) ==
    IF ~gen.started /\ get_groupings(c).error # NoError
    THEN [kind |-> "raise", gen |-> gen]
    ELSE group_loops(Resolved(c), [gen EXCEPT !.started = TRUE])

\* the generator group(workspace), resumed in state gen
group(c, gen) ==
    IF ~gen.started /\ get_groupings(c).error # NoError
    THEN [kind |-> "raise", gen |-> gen]
    ELSE IF /\ ~gen.started
            /\ c.grouping.given
            /\ get_groupings(c).keys # c.grouping.keys
    THEN [kind |-> "raise", gen |-> gen]
    ELSE group_loops(Resolved(c), [gen EXCEPT !.started = TRUE])

\* a loop over the modules that calls a hook of each in a try block
\* n - the modules; raises - the module whose hook raises, or 0;
\* cancel_run - what the listeners leave in the RunExceptionEvent
\* result - the loop ran to its end; called - the modules whose hook was
\* called, in the order of the calls; cancelled - a listener has left
\* cancel_run True
HookLoop(hook, n, raises, cancel_run) ==
    [result |-> ~(raises \in 1..n /\ cancel_run),
     events |-> IF raises \in 1..n
                THEN <<RunExceptionEvent(hook, raises, cancel_run, FALSE)>>
                ELSE <<>>,
     called |-> [k \in 1..(IF raises \in 1..n /\ cancel_run THEN raises
                           ELSE n) |-> k],
     cancelled |-> raises \in 1..n /\ cancel_run]

\* Pipeline.prepare_run: fails - the module whose prepare_run returns False
prepare_run(p, fails, raises, cancel_run) ==
    IF fails \in 1..Len(p.modules) /\ (raises = 0 \/ fails < raises)
    THEN [result |-> FALSE, events |-> <<>>,
          called |-> [k \in 1..fails |-> k], cancelled |-> FALSE]
    ELSE HookLoop("prepare_run", Len(p.modules), raises, cancel_run)

\* Pipeline.prepare_group
prepare_group(p, raises, cancel_run) ==
    HookLoop("prepare_group", Len(p.modules), raises, cancel_run)

\* Pipeline.post_group
post_group(p, raises, cancel_run) ==
    HookLoop("post_group", Len(p.modules), raises, cancel_run)

\* Pipeline.post_run
post_run(p, raises, cancel_run) ==
    [HookLoop("post_run", Len(p.modules), raises, cancel_run) EXCEPT
        !.result = IF @ THEN "Complete" ELSE "Failure"]

\* the resumption of run_with_yield ends at a yield or in the function's end
RunStep(pc2, it2, meas2, hist2, events2, error2) ==
    /\ pc' = pc2
    /\ it' = it2
    /\ meas' = meas2
    /\ hist' = hist2
    /\ events' = events2
    /\ error' = error2
    /\ UNCHANGED <<cfg, objs, modules, settings, undo_stack, undo_start,
                   histVars, codecVars, graphVars, propVars, colVars, runnerVars>>

\* the end of run_with_yield as it would be without end_run
Leave_without_end_run(it2, meas2, hist2, events2, error2, outcome) ==
    RunStep("done", it2,
            IF it2.has_measurements THEN [meas2 EXCEPT !.flushed = TRUE]
            ELSE meas2,
            [hist2 EXCEPT !.outcome = outcome], events2, error2)

\* run_with_yield ends: the finally clause and end_run
\* outcome - "returned", "raised", or "complete" for the end of the loop
Leave(it2, meas2, hist2, events2, error2, outcome) ==
    RunStep("done", it2,
            IF it2.has_measurements THEN [meas2 EXCEPT !.flushed = TRUE]
            ELSE meas2,
            [hist2 EXCEPT !.outcome = outcome, !.end_runs = @ + 1],
            Append(events2, EndRunEvent), error2)

\* a hook of the run is called after a module has set the disposition to
\* cancel, or after the EndRunEvent
AfterCancel(h) ==
    [h EXCEPT !.after_cancel = IF h.cancel_set THEN 1 ELSE @,
              !.after_end = IF h.end_runs > 0 THEN 1 ELSE @]

\* a loop over the hooks has returned r: whether a listener has left
\* cancel_run True in it
Cancelled(h, hook, r) ==
    IF r.cancelled THEN [h EXCEPT !.cancelled = hook] ELSE h

\* pipeline.add_module(module) at the end of the list, before any run
AddRunModule ==
    /\ pc = "idle"
    /\ CanPush
    /\ Len(modules) < MaxRun
    /\ Cardinality(Alive(Self)) < MaxModules
    /\ \E name \in ModuleNames :
        LET m == NewId(Self)
            new == [instantiate_module(<<name>>) EXCEPT
                       !.module_num = Len(modules) + 1,
                       !.settings = << <<"a">> >>]
        IN Return(add_module([Self EXCEPT !.objs[m] = new], m),
                  "add_module", "")

\* the classes of the modules of a run whose measurements are looked at:
\* one that stops the writing of measurements, and the module Restart
MeasuredNames == {"Align", "CreateBatchFiles", "Restart"}

\* pipeline.add_module(module) at the end of the list, before any run, the
\* module of one of these classes
AddMeasuredModule ==
    /\ pc = "idle"
    /\ CanPush
    /\ Len(modules) < MaxRun
    /\ Cardinality(Alive(Self)) < MaxModules
    /\ \E name \in MeasuredNames :
        LET m == NewId(Self)
            new == [instantiate_module(<<name>>) EXCEPT
                       !.module_num = Len(modules) + 1,
                       !.settings = << <<"a">> >>]
        IN Return(add_module([Self EXCEPT !.objs[m] = new], m),
                  "add_module", "")

\* run_with_yield as it would be, did a call not run prepare_run
Called_without_prepare(mode, scenario, image_set_start, image_set_end, call) ==
    /\ scenario.groupers <= Len(modules)
    /\ cfg' = [run_in_background |-> mode.run_in_background,
               frame |-> mode.frame,
               image_set_start |-> image_set_start,
               image_set_end |-> image_set_end,
               groupers |-> scenario.groupers,
               key_names |-> scenario.key_names,
               groupings |-> scenario.groupings,
               grouping |-> scenario.grouping]
    /\ pc' = "loop"
    /\ it' = NoLocals
    /\ meas' = [NoMeasurements EXCEPT !.image_numbers = Images]
    /\ hist' = [NoHistory EXCEPT !.call = call]
    /\ events' = <<>>
    /\ error' = NoError
    /\ UNCHANGED <<objs, modules, settings, undo_stack, undo_start, histVars,
                   codecVars, graphVars, propVars, colVars, runnerVars>>

\* run_with_yield is called with these arguments and runs to the try
\* statement; call - 1 for the first call, 2 for a call after a run
Called(mode, scenario, image_set_start, image_set_end, call) ==
    /\ scenario.groupers <= Len(modules)
    /\ cfg' = [run_in_background |-> mode.run_in_background,
               frame |-> mode.frame,
               image_set_start |-> image_set_start,
               image_set_end |-> image_set_end,
               groupers |-> scenario.groupers,
               key_names |-> scenario.key_names,
               groupings |-> scenario.groupings,
               grouping |-> scenario.grouping]
    /\ pc' = "prepare_run"
    /\ it' = NoLocals
    /\ meas' = NoMeasurements
    /\ hist' = [NoHistory EXCEPT !.call = call]
    /\ events' = <<>>
    /\ error' = NoError
    /\ UNCHANGED <<objs, modules, settings, undo_stack, undo_start, histVars,
                   codecVars, graphVars, propVars, colVars, runnerVars>>

\* run_with_yield is called
StartRun ==
    /\ pc = "idle"
    /\ \E mode \in Modes, scenario \in Scenarios,
          image_set_start \in {1, 2}, image_set_end \in {None, MaxImages - 1} :
        Called(mode, scenario, image_set_start, image_set_end, 1)

\* run_with_yield is called by the user interface, which has a frame, for
\* the image sets from the second on of a pipeline without a grouping
StartRunWithFrame ==
    /\ pc = "idle"
    /\ \E mode \in {m \in Modes : m.frame} :
        Called(mode, Scenario(0, {}, <<>>, NoGrouping), 2, None, 1)

\* the measurements when the modules' prepare_run have put the image sets
\* of the run into them
Populated(m) == [m EXCEPT !.image_numbers = Images]

\* what prepare_run did is noted: how - "ok", "failed" when a module's
\* prepare_run returned False, "raised" when one raised; and how many
\* RunExceptionEvents of the hook prepare_run the listeners got
NotePrepare(h, how, r) ==
    [h EXCEPT !.prepare_runs = @ + 1, !.prepare = how,
              !.prepare_notified =
                  Len(SelectSeq(r.events,
                                LAMBDA e : /\ e.type = "RunException"
                                           /\ e.hook = "prepare_run"))]

\* prepare_run has returned r: the rest of the code before the loop
Prepared(r, how) ==
    IF ~r.result
    THEN Leave(it, meas,
               Cancelled(NotePrepare(hist, how, r), "prepare_run", r),
               r.events, NoError, "returned")
    ELSE IF /\ cfg.grouping.given
            /\ get_groupings(Workspace(cfg, Populated(meas))).error # NoError
    THEN Leave(it, Populated(meas), NotePrepare(hist, how, r),
               r.events, "ValueError", "raised")
    ELSE RunStep("loop", it,
                 [meas EXCEPT !.image_numbers =
                     Remaining(Workspace(cfg, Populated(meas)))],
                 NotePrepare(hist, how, r), r.events, NoError)

\* self.prepare_run(workspace) and the code up to the loop
PrepareRun ==
    /\ pc = "prepare_run"
    /\ \/ Prepared(prepare_run(Self, 0, 0, TRUE), "ok")
       \/ \E fails \in 1..Len(modules) :
            Prepared(prepare_run(Self, fails, 0, TRUE), "failed")
       \/ \E raises \in 1..Len(modules), cancel_run \in BOOLEAN :
            Prepared(prepare_run(Self, 0, raises, cancel_run), "raised")

\* the grouping keys asked for are not those of the pipeline, or two
\* modules report groupings: group raises
GroupRaises(y) ==
    /\ y.kind = "raise"
    /\ Leave(it, meas, hist, <<>>, "ValueError", "raised")

GroupingFails == pc = "loop" /\ GroupRaises(group(Workspace(cfg, meas), it.gen))

\* the image set after closure() has returned r
ImageSetPrepared(y, r, h) ==
    IF ~r.result
    THEN Leave([it EXCEPT !.gen = y.gen], meas,
               Cancelled(h, "prepare_group", r), r.events, NoError,
               "returned")
    ELSE IF ~it.has_measurements
    THEN Leave([it EXCEPT !.gen = y.gen], meas, h, r.events,
               "AttributeError", "raised")
    ELSE RunStep(IF modules = <<>> THEN "loop" ELSE "module",
                 [it EXCEPT !.gen = y.gen, !.group_number = y.group_number,
                            !.group_index = y.group_index,
                            !.image_number = y.image_number, !.k = 1,
                            !.should_write_measurements = TRUE],
                 next_image_set(meas, y.image_number, Len(modules)),
                 [h EXCEPT !.set_prev = h.set_cur,
                           !.set_cur = [g |-> y.group_number,
                                        i |-> y.group_index,
                                        n |-> y.image_number],
                           !.processed = Append(@, y.image_number),
                           !.step = NoStep],
                 r.events, NoError)

\* group yields an image set: its closure is called, prepare_group for the
\* first image set of a group
ImageSet(y) ==
    /\ y.kind = "image"
    /\ IF y.prepare
       THEN \E raises \in 0..Len(modules), cancel_run \in BOOLEAN :
              /\ raises = 0 => cancel_run
              /\ ImageSetPrepared(y, prepare_group(Self, raises, cancel_run),
                    [hist EXCEPT
                        !.prepared[y.group_number] = Min(@ + 1, 2),
                        !.open = {g \in Groups :
                                    hist.prepared[g] > hist.posted[g]}])
       ELSE ImageSetPrepared(y, HookLoop("", 0, 0, TRUE), hist)

\* one pass of the loop of run_with_yield, for an image set
NextImageSet == pc = "loop" /\ ImageSet(group(Workspace(cfg, meas), it.gen))

\* the pass of the loop after closure(workspace) has returned r
GroupPosted(y, r, h) ==
    IF r.result
    THEN RunStep("loop", [it EXCEPT !.gen = y.gen], meas, h, r.events, NoError)
    ELSE IF ~it.has_measurements
    THEN Leave([it EXCEPT !.gen = y.gen], meas, h, r.events,
               "AttributeError", "raised")
    ELSE Leave([it EXCEPT !.gen = y.gen], add_exit_status(meas, "Failure"),
               Cancelled(h, "post_group", r), r.events, NoError, "returned")

\* group yields the end of a group: post_group is called
GroupEnd(y) ==
    /\ y.kind = "post_group"
    /\ \E raises \in 0..Len(modules), cancel_run \in BOOLEAN :
        /\ raises = 0 => cancel_run
        /\ GroupPosted(y, post_group(Self, raises, cancel_run),
              AfterCancel([hist EXCEPT
                              !.posted[y.group_number] = Min(@ + 1, 2)]))

\* one pass of the loop of run_with_yield, for the end of a group
PostGroup == pc = "loop" /\ GroupEnd(group(Workspace(cfg, meas), it.gen))

\* post_run has returned r
RunPosted(r, h) ==
    Leave(it, add_exit_status(meas, r.result),
          Cancelled([h EXCEPT !.post_run_calls = r.called], "post_run", r),
          r.events, NoError, "complete")

\* group is exhausted: post_run, unless measurements is None
LoopEnd(y) ==
    /\ y.kind = "stop"
    /\ IF it.has_measurements
       THEN \E raises \in 0..Len(modules), cancel_run \in BOOLEAN :
              /\ raises = 0 => cancel_run
              /\ RunPosted(post_run(Self, raises, cancel_run),
                           AfterCancel([hist EXCEPT !.post_runs = Min(@ + 1, 2)]))
       ELSE Leave(it, meas, hist, <<>>, NoError, "complete")

\* the end of the loop of run_with_yield and what follows it
PostRun == pc = "loop" /\ LoopEnd(group(Workspace(cfg, meas), it.gen))

\* the module of the pass of the module loop
Module == objs[modules[it.k]]

\* the module's run is done on a thread of its own
OnWorkerThread == cfg.run_in_background /\ ~is_interactive(Module)

\* a module.run starts
Started(h) ==
    [AfterCancel(h) EXCEPT
        !.prev = h.cur,
        !.cur = [g |-> it.group_number, i |-> it.group_index, k |-> it.k,
                 prepared |-> h.prepared[it.group_number],
                 posted |-> h.posted[it.group_number],
                 running |-> h.running, after |-> h.step.k],
        !.running = @ + 1,
        !.step = NoStep]

\* a module.run ends, having set the disposition to d
Ended(h, d) ==
    [h EXCEPT !.running = @ - 1,
              !.cancel_set = @ \/ d = DISPOSITION_CANCEL]

\* one pass of the module loop up to the yield: module.run(workspace) in
\* the caller's thread, directly or by worker.run()
\* raises - module.run raises; d - the disposition module.run leaves
RunModule ==
    /\ pc = "module"
    /\ ~OnWorkerThread
    /\ \E raises \in BOOLEAN, d \in Dispositions :
        RunStep("after",
                [it EXCEPT
                    !.should_write_measurements =
                        @ /\ ~should_stop_writing_measurements(Module),
                    !.exception = raises,
                    !.disposition = d,
                    !.worker =
                        IF cfg.run_in_background
                        THEN [alive |-> TRUE, running |-> FALSE,
                              paused |-> d = DISPOSITION_PAUSE,
                              exited_run |-> TRUE, exception |-> raises,
                              done |-> IF d = DISPOSITION_PAUSE THEN 0 ELSE 1]
                        ELSE NoWorker],
                meas, Ended(Started(hist), d), <<>>, NoError)

\* one pass of the module loop up to the yield: worker.start()
StartWorker ==
    /\ pc = "module"
    /\ OnWorkerThread
    /\ RunStep("after",
               [it EXCEPT
                   !.should_write_measurements =
                       @ /\ ~should_stop_writing_measurements(Module),
                   !.exception = FALSE,
                   !.disposition = DISPOSITION_CONTINUE,
                   !.worker = [NoWorker EXCEPT !.alive = TRUE]],
               meas, hist, <<>>, NoError)

\* the runner as it would be, did it post its done event before module.run
Running_and_done(w) == [w EXCEPT !.running = TRUE, !.done = @ + 1]
\* the runner whose thread has entered module.run
Running(w) == [w EXCEPT !.running = TRUE]

\* ModuleRunner.run on its thread: module.run starts
WorkerBegin ==
    /\ it.worker.alive
    /\ ~it.worker.running
    /\ ~it.worker.exited_run
    /\ RunStep(pc, [it EXCEPT !.worker = Running(@)], meas, Started(hist),
               <<>>, NoError)

\* ModuleRunner.run on its thread: module.run ends and the done event is
\* posted, unless the module has paused the run
WorkerEnd ==
    /\ it.worker.running
    /\ \E raises \in BOOLEAN, d \in Dispositions :
        RunStep(pc,
                [it EXCEPT !.disposition = d,
                           !.worker.running = FALSE,
                           !.worker.exception = raises,
                           !.worker.paused = d = DISPOSITION_PAUSE,
                           !.worker.exited_run = TRUE,
                           !.worker.done =
                               IF d = DISPOSITION_PAUSE THEN @ ELSE @ + 1],
                meas, Ended(hist, d), <<>>, NoError)

\* the user interface resumes run_with_yield after a module's yield when
\* the done event of the module's runner has arrived
MayResume == cfg.run_in_background => it.worker.done > 0

\* the end of a pass of the module loop as it would be without the pause
\* loop
Dispose_without_pause(it2, meas2, hist2, events2) ==
    IF it2.disposition = DISPOSITION_SKIP
    THEN RunStep("loop", it2, meas2, hist2, events2, NoError)
    ELSE IF it2.disposition = DISPOSITION_CANCEL
    THEN Leave(it2, add_exit_status(meas2, "Failure"), hist2, events2,
               NoError, "returned")
    ELSE IF it2.k < Len(modules)
    THEN RunStep("module", [it2 EXCEPT !.k = @ + 1], meas2, hist2, events2,
                 NoError)
    ELSE RunStep("loop", it2, meas2, hist2, events2, NoError)

\* the end of a pass of the module loop, from the check of the
\* disposition on
Dispose(it2, meas2, hist2, events2) ==
    IF it2.disposition = DISPOSITION_PAUSE /\ cfg.frame
    THEN RunStep("paused", it2, [meas2 EXCEPT !.flushed = TRUE], hist2,
                 events2, NoError)
    ELSE IF it2.disposition = DISPOSITION_SKIP
    THEN RunStep("loop", it2, meas2, hist2, events2, NoError)
    ELSE IF it2.disposition = DISPOSITION_CANCEL
    THEN Leave(it2, add_exit_status(meas2, "Failure"), hist2, events2,
               NoError, "returned")
    ELSE IF it2.k < Len(modules)
    THEN RunStep("module", [it2 EXCEPT !.k = @ + 1], meas2, hist2, events2,
                 NoError)
    ELSE RunStep("loop", it2, meas2, hist2, events2, NoError)

\* the failure flag of a module's step
failure_of(raised) == 0

\* the measurements of the step as they would be written for every module
Writes_always(mod, should_write_measurements) == TRUE
\* whether the failure flag and the execution time of the module's step
\* are written
Writes(mod, should_write_measurements) ==
    mod.module_name # <<"Restart">> /\ should_write_measurements

\* a pass of the module loop after the yield
\* raised - module.run had raised; exception - exception is not None
\* cancel_run, skip_thisset - what the listeners leave in the event
Recorded(raised, exception, delta_sec, cancel_run, skip_thisset) ==
    LET step == [k |-> it.k, raised |-> raised, recorded |-> FALSE,
                 failure |-> failure_of(raised), delta_sec |-> delta_sec,
                 events |-> IF exception THEN 1 ELSE 0,
                 cancel_run |-> cancel_run, skip_thisset |-> skip_thisset]
        evs == IF exception
               THEN <<RunExceptionEvent(IF raised THEN "run" ELSE "display",
                                        it.k, cancel_run, skip_thisset)>>
               ELSE <<>>
        skipped == exception /\ ~cancel_run /\ skip_thisset
        it2 == [it EXCEPT
                   !.exception = exception,
                   !.worker = NoWorker,
                   !.disposition = IF skipped THEN DISPOSITION_SKIP ELSE @,
                   !.should_write_measurements = @ /\ ~skipped,
                   !.has_measurements = @ /\ ~skipped]
        writes == Writes(Module, it2.should_write_measurements)
        meas2 == IF writes
                 THEN [meas EXCEPT !.ModuleError[it.k] = step.failure,
                                   !.ExecutionTime[it.k] = delta_sec,
                                   !.flushed = FALSE]
                 ELSE meas
        hist2 == [hist EXCEPT !.step = [step EXCEPT !.recorded = writes],
                              !.skip_answered = @ \/ (skipped /\ raised)]
    IN IF exception /\ cancel_run
       THEN Leave(it2, meas,
                  [hist EXCEPT !.step = step,
                               !.cancelled = IF raised THEN "run"
                                             ELSE "display"],
                  evs, NoError, "returned")
       ELSE Dispose(it2, meas2, hist2, evs)

\* run_with_yield is resumed after the yield of a module: module.display,
\* the RunExceptionEvent, the measurements, the disposition
\* t - t1 - t0; display_raises - module.display raises
AfterModule ==
    /\ pc = "after"
    /\ MayResume
    /\ \E t \in {-1, 1}, display_raises \in BOOLEAN,
          cancel_run \in BOOLEAN, skip_thisset \in BOOLEAN :
        LET raised == IF OnWorkerThread THEN it.worker.exception
                      ELSE it.exception
        IN /\ display_raises => cfg.frame /\ Module.show_window /\ ~raised
           /\ ~(raised \/ display_raises) => cancel_run /\ ~skip_thisset
           /\ Recorded(raised, raised \/ display_raises, Max(0, t),
                       cancel_run, skip_thisset)

\* run_with_yield is resumed after a yield of the pause loop
ResumePaused ==
    /\ pc = "paused"
    /\ Dispose(it, meas, hist, <<>>)

\* the user ends the pause: workspace.set_disposition(d), of which the
\* module's runner hears (on_disposition_changed)
SetDisposition ==
    /\ pc \in {"after", "paused"}
    /\ it.disposition = DISPOSITION_PAUSE
    /\ \E d \in Dispositions \ {DISPOSITION_PAUSE} :
        RunStep(pc,
                [it EXCEPT
                    !.disposition = d,
                    !.worker.paused = FALSE,
                    !.worker.done =
                        IF it.worker.paused /\ it.worker.exited_run
                        THEN @ + 1 ELSE @],
                meas, hist, <<>>, NoError)

\* ------------------------------------------------------------------------
\* Pipeline.get_provider_dictionary and Pipeline.get_dependency_graph
\* ------------------------------------------------------------------------
\* the groups of cellprofiler.settings
OBJECT_GROUP == "objectgroup"
IMAGE_GROUP == "imagegroup"
MEASUREMENTS_GROUP == "measurementsgroup"
DO_NOT_USE == "Do not use"
all_groups == <<OBJECT_GROUP, IMAGE_GROUP, MEASUREMENTS_GROUP>>

\* settings, by their class
NameProvider(groupname, value) ==
    [class |-> "NameProvider", group |-> groupname, value |-> value, object |-> ""]
NameSubscriber(groupname, value) ==
    [class |-> "NameSubscriber", group |-> groupname, value |-> value,
     object |-> ""]
\* object - setting.get_measurement_object()
Measurement(object, value) ==
    [class |-> "Measurement", group |-> "", value |-> value, object |-> object]
Text(value) == [class |-> "Text", group |-> "", value |-> value, object |-> ""]
\* an entry of module.other_providers
Other(groupname, name) == [group |-> groupname, name |-> name]

\* a module as the analysis sees it: other_providers, by group,
\* get_measurement_columns (object name and feature name) and
\* visible_settings
GraphModule(name, others, columns, visible) ==
    [module_name |-> name, module_num |-> 0, other_providers |-> others,
     columns |-> columns, visible_settings |-> visible]

\* the modules of the analysed pipelines
GraphModules ==
    {GraphModule("LoadImages", <<>>, <<>>, <<NameProvider(IMAGE_GROUP, "x")>>),
     GraphModule("Smooth", <<>>, <<>>,
         <<NameSubscriber(IMAGE_GROUP, "x"), Text("3"),
           NameProvider(IMAGE_GROUP, "x")>>),
     GraphModule("Identify", <<>>, << <<"x", "Area">> >>,
         <<NameSubscriber(IMAGE_GROUP, "x"), NameProvider(OBJECT_GROUP, "x")>>),
     GraphModule("Measure", <<>>, << <<"x", "Area">> >>,
         <<NameSubscriber(OBJECT_GROUP, "x"), Measurement("x", "Area")>>),
     GraphModule("LoadSingle", <<Other(IMAGE_GROUP, "x"), Other(OBJECT_GROUP, "y")>>,
         <<>>, <<NameProvider(IMAGE_GROUP, DO_NOT_USE)>>),
     GraphModule("Overlay", <<>>, <<>>,
         <<NameSubscriber(IMAGE_GROUP, DO_NOT_USE),
           NameSubscriber(OBJECT_GROUP, "y"),
           NameSubscriber(MEASUREMENTS_GROUP, "x")>>),
     GraphModule("Calculate", <<Other(MEASUREMENTS_GROUP, "x")>>, <<>>,
         <<Measurement("x", "Area"), Measurement("y", "Area"),
           NameProvider(MEASUREMENTS_GROUP, "x")>>)}

\* the keys of the provider dictionaries: a name, or an object name and a
\* feature name
Key(name) == <<name>>
Keys ==
    {Key("x"), Key("y"), Key(DO_NOT_USE), <<"x", "Area">>, <<"y", "Area">>}

\* a provider: the place of its module in the list, and the place of its
\* setting among the visible settings, or None
Provider(module, setting) == [module |-> module, setting |-> setting]

\* the places of the elements of a sequence, in order
Places(q) == [j \in 1..Len(q) |-> j]

\* get_provider_dictionary, one pass of its loop: what module idx appends
\* to result[key]
ModuleProviders(mod, idx, groupname, key) ==
    [j \in 1..Len(SelectSeq(mod.other_providers,
                    LAMBDA o : o.group = groupname /\ Key(o.name) = key)) |->
        Provider(idx, None)]
    \o [j \in 1..Len(SelectSeq(mod.columns,
                    LAMBDA c : groupname = MEASUREMENTS_GROUP /\ c = key)) |->
        Provider(idx, None)]
    \o [j \in 1..Len(SelectSeq(Places(mod.visible_settings),
                    LAMBDA k : /\ mod.visible_settings[k].class = "NameProvider"
                               /\ mod.visible_settings[k].group = groupname
                               /\ mod.visible_settings[k].value # DO_NOT_USE
                               /\ Key(mod.visible_settings[k].value) = key)) |->
        Provider(idx,
            SelectSeq(Places(mod.visible_settings),
                LAMBDA k : /\ mod.visible_settings[k].class = "NameProvider"
                           /\ mod.visible_settings[k].group = groupname
                           /\ mod.visible_settings[k].value # DO_NOT_USE
                           /\ Key(mod.visible_settings[k].value) = key)[j])]

\* result[key] after the first n passes of the loop
RECURSIVE ProvidersUpTo(_, _, _, _)
ProvidersUpTo(mods, n, groupname, key) ==
    IF n = 0 THEN <<>>
    ELSE ProvidersUpTo(mods, n - 1, groupname, key)
         \o ModuleProviders(mods[n], n, groupname, key)

\* Pipeline.get_provider_dictionary(groupname), of all the modules: a key
\* without providers is not in the dictionary
get_provider_dictionary(mods, groupname) ==
    [key \in Keys |-> ProvidersUpTo(mods, Len(mods), groupname, key)]
has_key(d, key) == key \in DOMAIN d /\ d[key] # <<>>

\* pmodule.module_num <= module.module_num, the mistaken comparison
NotAfter(pmodule, module) == pmodule.module_num <= module.module_num

\* pmodule.module_num < module.module_num
Precedes(pmodule, module) == pmodule.module_num < module.module_num

\* the providers of a list from the last to the first
LastFirst(plist) == Reversed(plist)

\* the providers in the order in which the loop looks at them
InOrder(plist) == plist

\* of the providers at which the loop would break, the one at which it does
UpToBreak(q) == IF q = <<>> THEN <<>> ELSE <<q[1]>>

\* the loop over the providers of a name: the first whose module comes
\* before the subscriber's, or <<>> when the loop ends without a break
FirstProvider(mods, plist, idx) ==
    UpToBreak(SelectSeq(InOrder(plist),
                        LAMBDA e : Precedes(mods[e.module], mods[idx])))

\* the Dependency classes
Dependency(type, e, idx, key, j) ==
    [type |-> type, source |-> e.module, destination |-> idx, name |-> key,
     source_setting |-> e.setting, destination_setting |-> j]

\* the dependencies that a NameSubscriber adds to the result
SubscriberDependencies(mods, providers, idx, j, g, name) ==
    IF g \in DOMAIN providers /\ has_key(providers[g], name)
    THEN IF g \in {OBJECT_GROUP, IMAGE_GROUP}
         THEN [k \in 1..Len(FirstProvider(mods, providers[g][name], idx)) |->
                 Dependency(IF g = OBJECT_GROUP THEN "Object" ELSE "Image",
                            FirstProvider(mods, providers[g][name], idx)[k],
                            idx, name, j)]
         ELSE <<>>
    ELSE <<>>

\* the dependencies that a Measurement setting adds to the result
MeasurementDependencies(mods, providers, idx, j, key) ==
    IF has_key(providers[MEASUREMENTS_GROUP], key)
    THEN [k \in 1..Len(FirstProvider(mods, providers[MEASUREMENTS_GROUP][key],
                                     idx)) |->
            Dependency("Measurement",
                       FirstProvider(mods, providers[MEASUREMENTS_GROUP][key],
                                     idx)[k],
                       idx, key, j)]
    ELSE <<>>

\* one pass of the loop over the visible settings of module idx
SettingDependencies(mods, providers, idx, j, setting) ==
    IF setting.class = "NameSubscriber"
    THEN SubscriberDependencies(mods, providers, idx, j, setting.group,
                                Key(setting.value))
    ELSE IF setting.class = "Measurement"
    THEN MeasurementDependencies(mods, providers, idx, j,
                                 <<setting.object, setting.value>>)
    ELSE <<>>

\* the result after the first j settings of module idx
RECURSIVE SettingsUpTo(_, _, _, _)
SettingsUpTo(mods, providers, idx, j) ==
    IF j = 0 THEN <<>>
    ELSE SettingsUpTo(mods, providers, idx, j - 1)
         \o SettingDependencies(mods, providers, idx, j,
                                mods[idx].visible_settings[j])

\* the result after the first n modules
RECURSIVE ModulesUpTo(_, _, _)
ModulesUpTo(mods, providers, n) ==
    IF n = 0 THEN <<>>
    ELSE ModulesUpTo(mods, providers, n - 1)
         \o SettingsUpTo(mods, providers, n, Len(mods[n].visible_settings))

\* Pipeline.get_dependency_graph
get_dependency_graph(mods) ==
    ModulesUpTo(mods,
                [g \in {OBJECT_GROUP, IMAGE_GROUP, MEASUREMENTS_GROUP} |->
                    get_provider_dictionary(mods, g)],
                Len(mods))

\* no pipeline is analysed
NoGraph == [modules |-> <<>>, result |-> <<>>, called |-> FALSE]

\* a module is added at the end of the pipeline that is analysed
AddGraphModule ==
    /\ Len(graph.modules) < MaxGraph
    /\ \E mod \in GraphModules :
        graph' = [modules |->
                     Append(graph.modules,
                            [mod EXCEPT !.module_num = Len(graph.modules) + 1]),
                  result |-> <<>>, called |-> FALSE]
    /\ UNCHANGED <<pipeVars, histVars, codecVars, runVars, propVars, colVars, runnerVars>>

\* pipeline.get_dependency_graph()
GetDependencyGraph ==
    /\ ~graph.called
    /\ graph' = [graph EXCEPT !.result = get_dependency_graph(graph.modules),
                              !.called = TRUE]
    /\ UNCHANGED <<pipeVars, histVars, codecVars, runVars, propVars, colVars, runnerVars>>

\* ------------------------------------------------------------------------
\* cpmath/propagate.py: propagate(image, labels, mask, weight)
\* ------------------------------------------------------------------------
\* the most rows and columns of an array
MaxRows == 2
MaxCols == 3

\* the shapes of the arrays: (rows, columns)
Shapes == (1..MaxRows) \X (1..MaxCols)
\* the coordinates of an array of a shape
Pixels(shape) == (0..(shape[1] - 1)) \X (0..(shape[2] - 1))
\* whether an array of a shape has an element at p
Inside(shape, p) ==
    /\ 0 <= p[1] /\ p[1] < shape[1]
    /\ 0 <= p[2] /\ p[2] < shape[2]
\* the coordinates of an array of a shape, in numpy's (row-major) order
Coordinates(shape) ==
    [k \in 1..(shape[1] * shape[2]) |->
        <<(k - 1) \div shape[2], (k - 1) % shape[2]>>]
\* a numpy array: its shape and its elements
Array(shape, at) == [shape |-> shape, at |-> at]
\* an array whose elements are all v but those of a set of coordinates
Filled(shape, v, except, w) ==
    Array(shape, [p \in Pixels(shape) |-> IF p \in except THEN w ELSE v])

\* numpy.zeros(labels.shape, numpy.int32)
zeros(shape) == Filled(shape, 0, {}, 0)
\* distances = -numpy.ones(...); distances[labels > 0] = 0
initial_distances(labels) ==
    Array(labels.shape,
          [p \in Pixels(labels.shape) |-> IF labels.at[p] > 0 THEN 0 ELSE -1])
\* labels_and_mask as it would be, were the mask left out of it
labels_and_mask_unmasked(labels, mask) ==
    Array(labels.shape, [p \in Pixels(labels.shape) |-> labels.at[p] # 0])
\* numpy.logical_and(labels != 0, mask)
labels_and_mask(labels, mask) ==
    Array(labels.shape,
          [p \in Pixels(labels.shape) |-> labels.at[p] # 0 /\ mask.at[p]])
\* numpy.argwhere(a)
argwhere(a) == SelectSeq(Coordinates(a.shape), LAMBDA p : a.at[p])
\* an entry of the priority queue; from is history: the pixel that pushed it
Entry(distance, label, p, from) ==
    [distance |-> distance, label |-> label, i |-> p[1], j |-> p[2],
     from |-> from]
\* the queue of seeds: one row (0.0 as two ints, label, i, j) for each pixel
\* of coords
SeedQueue(labels, coords) ==
    [k \in 1..Len(coords) |->
        Entry(0, labels.at[coords[k]], coords[k], coords[k])]

\* the orders in which the neighbours of a pixel may be pushed
Orders ==
    {<< <<-1, 0>>, <<1, 0>>, <<0, -1>>, <<0, 1>> >>,
     << <<0, 1>>, <<0, -1>>, <<1, 0>>, <<-1, 0>> >>}
\* the nine offsets of a neighbourhood
Nine == [k \in 1..9 |-> <<((k - 1) \div 3) - 1, ((k - 1) % 3) - 1>>]
Abs(x) == IF x < 0 THEN -x ELSE x
Plus(p, d) == <<p[1] + d[1], p[2] + d[2]>>
\* the sum of the first n elements of a sequence
RECURSIVE Sum(_, _)
Sum(f, n) == IF n = 0 THEN 0 ELSE Sum(f, n - 1) + f[n]
\* the sum of the height differences between the neighbours of p and the
\* neighbours of q, over the offsets that lie inside the image at both
height_diff(image, p, q) ==
    Sum([k \in 1..9 |->
            IF Inside(image.shape, Plus(p, Nine[k]))
               /\ Inside(image.shape, Plus(q, Nine[k]))
            THEN Abs(image.at[Plus(p, Nine[k])] - image.at[Plus(q, Nine[k])])
            ELSE 0],
        9)
manhattan_distance(p, q) == Abs(q[1] - p[1]) + Abs(q[2] - p[2])
\* the square of the cost of the step from p to q
Squared(image, p, q, weight) ==
    height_diff(image, p, q) * height_diff(image, p, q)
        + (manhattan_distance(p, q) * weight)
              * (manhattan_distance(p, q) * weight)
\* the square root, rounded down
Sqrt(x) == CHOOSE r \in 0..x : r * r <= x /\ x < (r + 1) * (r + 1)
\* the cost of the step from p to q
distance(image, p, q, weight) == Sqrt(Squared(image, p, q, weight))

\* the order of the queue as it would be, were the label left out of it
Less_by_distance(a, b) == a.distance < b.distance
\* the order of the queue: by distance, then label, then coordinates
Less(a, b) ==
    \/ a.distance < b.distance
    \/ a.distance = b.distance /\ a.label < b.label
    \/ a.distance = b.distance /\ a.label = b.label /\ a.i < b.i
    \/ a.distance = b.distance /\ a.label = b.label /\ a.i = b.i /\ a.j < b.j
\* the place of the least entry of a queue: the first of those that no
\* entry is less than
Top(pq) ==
    CHOOSE k \in 1..Len(pq) :
        /\ \A m \in 1..Len(pq) : ~Less(pq[m], pq[k])
        /\ \A m \in 1..(k - 1) : Less(pq[k], pq[m])
\* a queue without its k-th entry
Without(pq, k) == SubSeq(pq, 1, k - 1) \o SubSeq(pq, k + 1, Len(pq))
\* the masked neighbours of the entry e, in the order they are pushed
Neighbours(mask, order, e) ==
    SelectSeq([k \in 1..Len(order) |-> Plus(<<e.i, e.j>>, order[k])],
              LAMBDA q : Inside(mask.shape, q) /\ mask.at[q])
\* the entries the popped entry e pushes for its neighbours
Pushed(image, weight, e, neighbours) ==
    [k \in 1..Len(neighbours) |->
        Entry(e.distance + distance(image, <<e.i, e.j>>, neighbours[k], weight),
              e.label, neighbours[k], <<e.i, e.j>>)]
\* one pop of the queue: a finalized pixel is skipped, another gets the
\* entry's label and distance and pushes its neighbours
Pop(image, mask, weight, order, st, e, k) ==
    IF <<e.i, e.j>> \in st.finalized
    THEN [st EXCEPT !.pq = Without(st.pq, k), !.pops = @ + 1]
    ELSE [pq |-> Without(st.pq, k)
                    \o Pushed(image, weight, e, Neighbours(mask, order, e)),
          labels_out |->
              [st.labels_out EXCEPT !.at[<<e.i, e.j>>] = e.label],
          distances |->
              [st.distances EXCEPT !.at[<<e.i, e.j>>] = e.distance],
          finalized |-> st.finalized \cup {<<e.i, e.j>>},
          from |-> [st.from EXCEPT ![<<e.i, e.j>>] = e.from],
          pops |-> st.pops + 1]
\* the expansion: pop the least entry until the queue is empty
RECURSIVE Expand(_, _, _, _, _)
PopAt(image, mask, weight, order, st, k) ==
    Expand(image, mask, weight, order,
           Pop(image, mask, weight, order, st, st.pq[k], k))
Expand(image, mask, weight, order, st) ==
    IF st.pq = <<>> THEN st
    ELSE PopAt(image, mask, weight, order, st, Top(st.pq))
\* _propagate.propagate(image, pq, mask, labels_out, distances, weight)
propagate_propagate(image, pq, mask, labels_out, distances, weight, order) ==
    Expand(image, mask, weight, order,
           [pq |-> pq, labels_out |-> labels_out, distances |-> distances,
            finalized |-> {},
            from |-> [p \in Pixels(image.shape) |-> p], pops |-> 0])

\* what a call of propagate gave: the exception it raised or the arrays it
\* returned
Raises(x) == [error |-> x, computed |-> FALSE]
Returns(st) ==
    [error |-> NoError, computed |-> TRUE, labels_out |-> st.labels_out,
     distances |-> st.distances, pq |-> st.pq, from |-> st.from,
     finalized |-> st.finalized, pops |-> st.pops]

\* propagate(image, labels, mask, weight); order is the order in which
\* _propagate pushes the neighbours of a pixel
propagate(image, labels, mask, weight, order) ==
    IF image.shape # labels.shape
    THEN \* the message is built from label.shape, and label is no name
         Raises("NameError")
    ELSE IF image.shape # mask.shape
    THEN Raises("ValueError")
    ELSE Returns(propagate_propagate(
             image,
             SeedQueue(labels, argwhere(labels_and_mask(labels, mask))),
             mask, zeros(labels.shape), initial_distances(labels), weight,
             order))

\* the images: flat, or with one pixel raised
Heights(shape) ==
    {Filled(shape, 0, S, 1) : S \in {{}} \cup {{p} : p \in Pixels(shape)}}
\* the labels of the seeds
Labels == {1, 2}
\* the label arrays: at most two seeds
Seeds(shape) ==
    {Array(shape, [p \in Pixels(shape) |->
                      IF p = s[1] THEN s[2] ELSE IF p = s[3] THEN s[4] ELSE 0])
        : s \in Pixels(shape) \X ({0} \cup Labels)
                  \X Pixels(shape) \X ({0} \cup Labels)}
\* the masks: at most two pixels outside
Masks(shape) ==
    {Filled(shape, TRUE, {p, q}, FALSE) : p, q \in Pixels(shape)}
        \cup {Filled(shape, TRUE, {}, FALSE)}
Weights == 0..2
\* whether every step of the image has a whole cost
Exact(image, weight) ==
    \A p, q \in Pixels(image.shape) :
        manhattan_distance(p, q) = 1 =>
            distance(image, p, q, weight) * distance(image, p, q, weight)
                = Squared(image, p, q, weight)
\* the images and weights whose steps have whole costs
Terrains(shape) ==
    {t \in Heights(shape) \X Weights : Exact(t[1], t[2])}
\* the arguments of a call
Arguments(image, labels, mask, weight) ==
    [given |-> TRUE, called |-> FALSE, image |-> image, labels |-> labels,
     mask |-> mask, weight |-> weight]
\* the shapes of three arrays that are not of one shape
Mismatched ==
    {s \in Shapes \X Shapes \X Shapes : s[1] # s[2] \/ s[1] # s[3]}

NoPropagation == [given |-> FALSE, called |-> FALSE]

\* the caller makes the arrays
MakeArrays ==
    /\ ~prop.given
    /\ \/ \E shape \in Shapes :
              \E a \in Terrains(shape) \X Seeds(shape) \X Masks(shape) :
                  prop' = Arguments(a[1][1], a[2], a[3], a[1][2])
       \/ \E s \in Mismatched :
              prop' = Arguments(zeros(s[1]), Filled(s[2], 0, {<<0, 0>>}, 1),
                                Filled(s[3], TRUE, {}, FALSE), 1)
    /\ UNCHANGED <<pipeVars, histVars, codecVars, runVars, graphVars, colVars, runnerVars>>

\* a call of propagate
Propagate ==
    /\ prop.given
    /\ ~prop.called
    /\ \E order \in Orders :
        prop' = [given |-> TRUE, called |-> TRUE, image |-> prop.image,
                 labels |-> prop.labels, mask |-> prop.mask,
                 weight |-> prop.weight, order |-> order,
                 result |-> propagate(prop.image, prop.labels, prop.mask,
                                      prop.weight, order)]
    /\ UNCHANGED <<pipeVars, histVars, codecVars, runVars, graphVars, colVars, runnerVars>>

\* ------------------------------------------------------------------------
\* Pipeline.settings_hash and Pipeline.get_measurement_columns
\* ------------------------------------------------------------------------
\* the strings of a list one after the other, as h.update takes them
RECURSIVE Joined(_)
Joined(strings) ==
    IF strings = <<>> THEN <<>> ELSE Head(strings) \o Joined(Tail(strings))

\* Pipeline.settings_hash: the digest of the module names and the setting
\* values, all fed to the hash one after the other; equal inputs give equal
\* digests, and different inputs are taken to give different ones
RECURSIVE settings_hash(_)
settings_hash(p) ==
    IF p.modules = <<>> THEN <<>>
    ELSE p.objs[Head(p.modules)].module_name
         \o Joined(p.objs[Head(p.modules)].settings)
         \o settings_hash([p EXCEPT !.modules = Tail(@)])

\* a measurement column: its object, its feature, and the number of the
\* module it is of (0: of the pipeline)
Column(object, feature, of) ==
    [object |-> object, feature |-> feature, of |-> of]

\* module.get_measurement_columns(pipeline): the module names its
\* measurements by its settings
ModuleColumns(mod) == << Column("Image", mod.settings, mod.module_num) >>

\* the two columns of a module's step
StepColumns(mod) ==
    << Column("Image", <<"ModuleError", mod.module_num, mod.module_name>>,
              mod.module_num),
       Column("Image", <<"ExecutionTime", mod.module_num, mod.module_name>>,
              mod.module_num) >>

\* the loop of get_measurement_columns over the modules from the k-th on
RECURSIVE ColumnsFrom(_, _, _, _)
ColumnsFrom(p, k, terminating_module_num, should_write_columns) ==
    IF k > Len(p.modules) THEN <<>>
    ELSE LET module == p.objs[p.modules[k]]
             writes == /\ should_write_columns
                       /\ ~should_stop_writing_measurements(module)
         IN IF terminating_module_num = module.module_num THEN <<>>
            ELSE ModuleColumns(module)
                 \o (IF writes THEN StepColumns(module) ELSE <<>>)
                 \o ColumnsFrom(p, k + 1, terminating_module_num, writes)

\* the columns get_measurement_columns makes when it has none kept
\* terminating_module - None, or the place of the module in the list
Computed(p, terminating_module) ==
    << Column("Experiment", <<"Pipeline">>, 0),
       Column("Image", <<"Group_Number">>, 0),
       Column("Image", <<"Group_Index">>, 0) >>
    \o ColumnsFrom(p, 1,
                   IF terminating_module = None THEN None
                   ELSE p.objs[p.modules[terminating_module]].module_num,
                   TRUE)

\* Pipeline.get_measurement_columns(terminating_module): the cache after
\* the call, and in got what the call returned
get_measurement_columns(p, c, terminating_module) ==
    LET hash == settings_hash(p)
        kept == IF hash # c.measurement_column_hash THEN <<>>
                ELSE c.measurement_columns
        terminating_module_num ==
            IF terminating_module = None THEN Len(p.modules) + 1
            ELSE p.objs[p.modules[terminating_module]].module_num
        columns == IF terminating_module_num \in DOMAIN kept
                   THEN kept[terminating_module_num]
                   ELSE Computed(p, terminating_module)
    IN [measurement_column_hash |-> hash,
        measurement_columns |->
            [k \in DOMAIN kept \cup {terminating_module_num} |->
                IF k = terminating_module_num THEN columns ELSE kept[k]],
        got |-> [called |-> TRUE, terminating_module |-> terminating_module,
                 columns |-> columns]]

\* the settings of a module with two text settings
Texts ==
    {<< <<"a">>, <<"b">> >>, << <<"a", "b">>, <<>> >>, << <<"b">>, <<"a">> >>}

\* pipeline.add_module(module), the module with two text settings
AddTextModule ==
    /\ CanPush
    /\ Cardinality(Alive(Self)) < MaxModules
    /\ \E module_num \in 1..(Len(modules) + 1), values \in Texts :
        LET m == NewId(Self)
            new == NewModule(<<"M">>, module_num, values)
        IN Return(add_module([Self EXCEPT !.objs[m] = new], m),
                  "add_module", "")

\* the user edits the texts of a module, then pipeline.edit_module
EditTexts ==
    /\ CanPush
    /\ \E module_num \in 1..Len(modules), values \in Texts :
        LET m == modules[module_num]
        IN /\ objs[m].settings # values
           /\ Return(edit_module([Self EXCEPT !.objs[m].settings = values],
                                 module_num),
                     "edit_module", "")

\* pipeline.get_measurement_columns(terminating_module)
GetMeasurementColumns ==
    /\ pc = "idle"
    /\ \E terminating_module \in {None} \cup (1..Len(modules)) :
        cache' = get_measurement_columns(Self, cache, terminating_module)
    /\ UNCHANGED <<pipeVars, histVars, codecVars, runVars, graphVars, propVars,
                   runnerVars>>

\* ------------------------------------------------------------------------
\* ModuleRunner: its thread and the thread that changes the disposition
\* ------------------------------------------------------------------------
\* the most changes of the disposition delivered to a runner
MaxChanges == 3

\* ModuleRunner.__init__, the thread not yet started
\* at - where the thread is in run; listener - where the thread that
\* delivers a change of the disposition is in on_disposition_changed;
\* done - the done events posted; changes - the changes delivered;
\* posted_early, posted_paused - a done event was posted before module.run
\* had returned, or while the runner was paused
ModuleRunner ==
    [at |-> "created", paused |-> FALSE, exited_run |-> FALSE,
     exception |-> FALSE, listener |-> "idle", done |-> 0, changes |-> 0,
     posted_early |-> FALSE, posted_paused |-> FALSE]

\* ModuleRunner.post_done
post_done(r) ==
    [r EXCEPT !.done = @ + 1,
              !.posted_early = @ \/ r.at \in {"created", "run"},
              !.posted_paused = @ \/ r.paused]

\* a step of the model of the runner
RunnerStep(r) ==
    /\ runner' = r
    /\ UNCHANGED <<pipeVars, histVars, codecVars, runVars, graphVars, propVars,
                   colVars>>

\* worker.start() or worker.run(): run is entered
RunnerStart ==
    /\ runner.at = "created"
    /\ RunnerStep([runner EXCEPT !.at = "run"])

\* self.module.run(self.workspace) returns or raises
RunnerModuleRun ==
    /\ runner.at = "run"
    /\ \E raises \in BOOLEAN :
        RunnerStep([runner EXCEPT !.at = "test", !.exception = raises])

\* if not self.paused
RunnerTest ==
    /\ runner.at = "test"
    /\ RunnerStep([runner EXCEPT
                      !.at = IF runner.paused THEN "exit" ELSE "post"])

\* self.post_done()
RunnerPost ==
    /\ runner.at = "post"
    /\ RunnerStep([post_done(runner) EXCEPT !.at = "exit"])

\* self.exited_run = True
RunnerExit ==
    /\ runner.at = "exit"
    /\ RunnerStep([runner EXCEPT !.at = "ended", !.exited_run = TRUE])

\* on_disposition_changed(event) for a pause
OnPause ==
    /\ runner.listener = "idle"
    /\ runner.changes < MaxChanges
    /\ RunnerStep([runner EXCEPT !.paused = TRUE, !.changes = @ + 1])

\* on_disposition_changed(event) for another disposition, up to the test
\* of exited_run
OnContinue ==
    /\ runner.listener = "idle"
    /\ runner.changes < MaxChanges
    /\ RunnerStep([runner EXCEPT
                      !.paused = FALSE,
                      !.changes = @ + 1,
                      !.listener = IF runner.paused THEN "test" ELSE "idle"])

\* on_disposition_changed: if self.exited_run: self.post_done()
OnContinueTest ==
    /\ runner.listener = "test"
    /\ RunnerStep([(IF runner.exited_run THEN post_done(runner) ELSE runner)
                      EXCEPT !.listener = "idle"])

\* Pipeline.__init__
Init ==
    /\ objs = [i \in Ids |-> NoModule]
    /\ modules = <<>>
    /\ settings = <<>>
    /\ undo_stack = <<>>
    /\ undo_start = NoStart
    /\ events = <<>>
    /\ error = NoError
    /\ last = [op |-> "init", undone |-> "", before |-> <<>>,
               changed |-> FALSE]
    /\ bracket = NoBracket
    /\ held = NoStart
    /\ file = <<>>
    /\ other = Pipeline
    /\ io = NoIO
    /\ pc = "idle"
    /\ cfg = NoArguments
    /\ it = NoLocals
    /\ meas = NoMeasurements
    /\ hist = NoHistory
    /\ graph = NoGraph
    /\ prop = NoPropagation
    /\ cache = NoCache
    /\ runner = ModuleRunner

Next ==
    \/ AddModule
    \/ RemoveModule
    \/ MoveModule
    \/ MoveModuleRefused
    \/ EditModule
    \/ Undo
    \/ UndoRaises
    \/ StartUndoableAction
    \/ StopUndoableAction

Spec == Init /\ [][Next]_vars

\* a pipeline of modules with text settings is edited and asked for its
\* measurement columns
NextColumns ==
    \/ AddTextModule
    \/ RemoveModule
    \/ MoveModule
    \/ EditTexts
    \/ GetMeasurementColumns

SpecColumns == Init /\ [][NextColumns]_vars

\* modules are added and removed, at positions inside and outside the list
NextOutside ==
    \/ AddModule
    \/ RemoveModule
    \/ EditModule
    \/ AddModuleOutside
    \/ RemoveModuleOutside

SpecOutside == Init /\ [][NextOutside]_vars

\* a pipeline is edited, cleared, and the calls undone
NextClear ==
    \/ AddModule
    \/ RemoveModule
    \/ MoveModule
    \/ EditModule
    \/ Clear
    \/ Undo

SpecClear == Init /\ [][NextClear]_vars

\* a pipeline is edited and calls are undone, inside and outside the
\* brackets of start_undoable_action and stop_undoable_action
NextBracket ==
    \/ AddModule
    \/ RemoveModule
    \/ EditModule
    \/ Undo
    \/ StartUndoableAction
    \/ StopAfterAny

SpecBracket == Init /\ [][NextBracket]_vars

\* a module runner runs while the disposition is changed
NextRunner ==
    \/ RunnerStart
    \/ RunnerModuleRun
    \/ RunnerTest
    \/ RunnerPost
    \/ RunnerExit
    \/ OnPause
    \/ OnContinue
    \/ OnContinueTest

SpecRunner == Init /\ [][NextRunner]_vars

\* a pipeline is built, saved, copied and loaded
NextCodec ==
    \/ AddSavedModule
    \/ SaveTxt
    \/ SaveOtherVersion
    \/ SaveDamaged
    \/ Copy
    \/ Load

SpecCodec == Init /\ [][NextCodec]_vars

\* a pipeline is built and run
NextRun ==
    \/ AddRunModule
    \/ StartRun
    \/ PrepareRun
    \/ GroupingFails
    \/ NextImageSet
    \/ PostGroup
    \/ PostRun
    \/ RunModule
    \/ StartWorker
    \/ WorkerBegin
    \/ WorkerEnd
    \/ AfterModule
    \/ ResumePaused
    \/ SetDisposition

SpecRun == Init /\ [][NextRun]_vars

\* run_with_yield is called for the image sets from the second on of a
\* pipeline without a grouping
StartRunUngrouped ==
    /\ pc = "idle"
    /\ \E mode \in Modes :
        Called(mode, Scenario(0, {}, <<>>, NoGrouping), 2, None, 1)

\* run_with_yield is called again after a run has ended
StartRunAgain ==
    /\ pc = "done"
    /\ hist.call = 1
    /\ \E mode \in Modes :
        Called(mode, Scenario(0, {}, <<>>, NoGrouping), 2, None, 2)

\* a pipeline of modules of the measured classes is built and run
NextMeasure ==
    \/ AddMeasuredModule
    \/ StartRunUngrouped
    \/ StartRunAgain
    \/ PrepareRun
    \/ NextImageSet
    \/ PostGroup
    \/ PostRun
    \/ RunModule
    \/ StartWorker
    \/ WorkerBegin
    \/ WorkerEnd
    \/ AfterModule
    \/ ResumePaused
    \/ SetDisposition

SpecMeasure == Init /\ [][NextMeasure]_vars

\* a pipeline is built and run by the user interface, where a module may
\* pause the run
NextPause ==
    \/ AddRunModule
    \/ StartRunWithFrame
    \/ PrepareRun
    \/ NextImageSet
    \/ PostGroup
    \/ PostRun
    \/ RunModule
    \/ StartWorker
    \/ WorkerBegin
    \/ WorkerEnd
    \/ AfterModule
    \/ ResumePaused
    \/ SetDisposition

\* the steps of run_with_yield and of the module's runner: the caller goes
\* on iterating the generator, and the runner's thread goes on running
Resumed ==
    \/ PrepareRun
    \/ NextImageSet
    \/ PostGroup
    \/ PostRun
    \/ RunModule
    \/ StartWorker
    \/ WorkerBegin
    \/ WorkerEnd
    \/ AfterModule
    \/ ResumePaused

\* the run goes on as long as it can: the user's answer to a pause is not
\* certain to come
SpecPause == Init /\ [][NextPause]_vars /\ WF_vars(Resumed)

\* the dependencies of a pipeline are analysed
NextGraph ==
    \/ AddGraphModule
    \/ GetDependencyGraph

SpecGraph == Init /\ [][NextGraph]_vars

\* arrays are propagated
NextPropagate ==
    \/ MakeArrays
    \/ Propagate

SpecPropagate == Init /\ [][NextPropagate]_vars

\* ------------------------------------------------------------------------
\* C1: after any sequence of add_module, remove_module, move_module and undo
\* calls with valid positions, the module at index i of the list has
\* module_num i+1 (1-based here: the k-th module has number k), so that
\* module(n) returns the module numbered n.
\* ------------------------------------------------------------------------
C1_Renumbered ==
    \A k \in 1..Len(modules) : objs[modules[k]].module_num = k

\* a list of two modules that an undo of a move has just put back in order
C1_Witness ==
    /\ Len(modules) = 2
    /\ last.op = "undo"
    /\ last.undone = "move_module"
    /\ last.changed

\* ------------------------------------------------------------------------
\* C2: undo() immediately after one add_module, remove_module, move_module
\* or edit_module (the edit of a setting that edit_module reports) puts the
\* module list back as it was before that call: the same modules in the same
\* order, with the same module_num and the same setting values.
\* ------------------------------------------------------------------------
C2_UndoRestores ==
    (last.op = "undo" /\ last.undone \in MutatingCalls)
        => (View = last.before /\ error = NoError)

\* an edit that changed a setting of one of two modules, undone
C2_Witness ==
    /\ last.op = "undo"
    /\ last.undone = "edit_module"
    /\ last.changed
    /\ Len(modules) = 2

\* ------------------------------------------------------------------------
\* C3: after start_undoable_action(), k >= 2 calls among add_module,
\* remove_module, move_module and edit_module, and stop_undoable_action(name),
\* the k closures are replaced by one closure with that name which holds
\* them in order; one undo() then puts the module list back as it was at
\* start_undoable_action() and leaves the stack as it was there. With k = 1
\* the stack is left as it is.
\* ------------------------------------------------------------------------
C3_Composite ==
    /\ (bracket.phase = "stopped" /\ bracket.k >= 2) =>
          /\ Len(undo_stack) = Len(bracket.stack) + 1
          /\ Front(undo_stack) = bracket.stack
          /\ Last(undo_stack).kind = "composite"
          /\ Last(undo_stack).msg = bracket.name
          /\ Len(Last(undo_stack).acts) = bracket.k
          /\ bracket.stack \o Last(undo_stack).acts = bracket.before
    /\ (bracket.phase = "stopped" /\ bracket.k = 1) =>
          /\ undo_stack = bracket.before
          /\ Len(undo_stack) = Len(bracket.stack) + 1
    /\ (bracket.phase = "undone" /\ bracket.k >= 2) =>
          /\ View = bracket.view
          /\ undo_stack = bracket.stack
          /\ error = NoError

\* a composite of two calls on a list that held a module already, undone
C3_Witness ==
    /\ bracket.phase = "undone"
    /\ bracket.k = 2
    /\ Len(bracket.view) >= 1
    /\ Len(bracket.stack) >= 1

\* the case of one call between start and stop
C3_WitnessOne == bracket.phase = "stopped" /\ bracket.k = 1

\* the pipeline as it was before the last save or load
Before == [objs |-> io.objs, modules |-> io.modules]

\* ------------------------------------------------------------------------
\* C4: a pipeline of N >= 0 modules, with any setting strings, that is saved
\* and loaded into a new Pipeline (copy()) comes back: the load succeeds and
\* the new pipeline has the same module names in the same order, the same
\* setting values and the same variable_revision_number, show_window and
\* notes. The pipeline of no modules refutes it: savetxt ends the file after
\* the three header lines, and loadtxt wants a blank line after them.
\* ------------------------------------------------------------------------
C4_RoundTrip ==
    io.op = "copy" =>
        /\ other.error = NoError
        /\ Persisted(other) = Persisted(Before)

\* ------------------------------------------------------------------------
\* C5: loading a file whose Version is above NATIVE_VERSION fails before
\* any module record is read; the module list and the undo stack of the
\* pipeline are as they were and the listeners hear of no PipelineLoaded.
\* ------------------------------------------------------------------------
C5_NewerVersionRejected ==
    io.op = "load" /\ io.version > NATIVE_VERSION =>
        /\ error # NoError
        /\ io.parsed = 0
        /\ modules = io.modules
        /\ objs = io.objs
        /\ undo_stack = io.undo_stack
        /\ \A k \in 1..Len(events) : events[k].type # "PipelineLoaded"

C5_Witness ==
    /\ io.op = "load"
    /\ io.version = 3
    /\ error = "ValueError"
    /\ Len(modules) = 2
    /\ Len(undo_stack) = 2

\* the image sets a run has to process: those in range, of the groups that
\* match the grouping asked for
ToProcess(c) ==
    {s \in [g : 1..Len(c.groupings), i : 1..MaxImages, n : 1..MaxImages] :
        /\ s.i <= Len(c.groupings[s.g].image_numbers)
        /\ s.n = c.groupings[s.g].image_numbers[s.i]
        /\ Matches(c, s.g)
        /\ InRange(c, s.n)}

\* the run with the groups that get_groupings reports
Reported == Resolved(Workspace(cfg, meas))

\* image set a comes before image set b in the order of get_groupings
Earlier(a, b) == a.g < b.g \/ (a.g = b.g /\ a.i < b.i)

\* C6: within an image set module.run is called on the modules in list
\* order, one at a time and each after the step of the module before it is
\* finished; the image sets processed are those in range of the groups that
\* match the grouping asked for, in the order of get_groupings and, within
\* a group, of the group's image numbers, none left out
C6_Ordered ==
    /\ hist.cur.k > 0 =>
        /\ hist.cur.running = 0
        /\ hist.cur.after = hist.cur.k - 1
        /\ hist.cur.k > 1 =>
            /\ hist.prev.k = hist.cur.k - 1
            /\ hist.prev.g = hist.cur.g
            /\ hist.prev.i = hist.cur.i
    /\ hist.set_cur.g > 0 =>
        /\ hist.set_cur \in ToProcess(Reported)
        /\ \A s \in ToProcess(Reported) :
            Earlier(s, hist.set_cur) <=>
                s = hist.set_prev \/ Earlier(s, hist.set_prev)
    /\ hist.outcome = "complete" =>
        \A s \in ToProcess(Reported) : s = hist.set_cur \/ Earlier(s, hist.set_cur)

\* the second module of the second image set of group A starts on its
\* thread, in a run of group A alone whose groups are interleaved
C6_Witness ==
    /\ cfg.run_in_background
    /\ cfg.groupings = Interleaved
    /\ cfg.grouping = Grouping({"Row"}, "A")
    /\ hist.set_prev = [g |-> 1, i |-> 1, n |-> 1]
    /\ hist.set_cur = [g |-> 1, i |-> 2, n |-> 3]
    /\ hist.cur.g = 1 /\ hist.cur.i = 2 /\ hist.cur.k = 2
    /\ hist.running = 1

\* the group has an image set to process
HasImageSet(c, g) == \E s \in ToProcess(c) : s.g = g

\* C7: when a module.run starts, prepare_group has been called once for
\* its group and post_group not yet; when prepare_group is called, every
\* group prepared before has had its post_group; post_group is not called
\* more often than prepare_group; and when the run has come to the end of
\* its loop, each group that had an image set to process has had one
\* prepare_group and one post_group, and the other groups none
C7_Paired ==
    /\ hist.cur.k > 0 => hist.cur.prepared = 1 /\ hist.cur.posted = 0
    /\ hist.open = {}
    /\ \A g \in Groups : hist.posted[g] <= hist.prepared[g]
    /\ hist.outcome = "complete" =>
        \A g \in Groups :
            IF g <= Len(Reported.groupings) /\ HasImageSet(Reported, g)
            THEN hist.prepared[g] = 1 /\ hist.posted[g] = 1
            ELSE hist.prepared[g] = 0 /\ hist.posted[g] = 0

\* a run of two groups and two modules has come to its end, each group
\* prepared once and posted once
C7_Witness ==
    /\ hist.outcome = "complete"
    /\ cfg.groupings = Blocks
    /\ ~cfg.grouping.given
    /\ hist.prepared = [g \in Groups |-> 1]
    /\ hist.posted = [g \in Groups |-> 1]
    /\ hist.cur.g = 2 /\ hist.cur.k = 2
    /\ meas.exit_status = "Complete"

\* C8: the ModuleError recorded for a module and an image set is 1 when
\* module.run raised and 0 when it returned, the ExecutionTime recorded is
\* not negative, and a module.run that raised made one RunExceptionEvent
C8_FailureFlag ==
    hist.step.recorded =>
        /\ meas.ModuleError[hist.step.k] = (IF hist.step.raised THEN 1 ELSE 0)
        /\ meas.ExecutionTime[hist.step.k] >= 0
        /\ hist.step.raised => hist.step.events = 1

\* C9: after a listener has answered the RunExceptionEvent of a module.run
\* with cancel_run False and skip_thisset True, no other module of the
\* image set is run, the run goes on to the next image set without an
\* error, and a run that comes to the end of its loop has done post_run
\* and recorded an Exit_Status
C9_SkipContinues ==
    /\ hist.step.raised /\ ~hist.step.cancel_run /\ hist.step.skip_thisset =>
        hist.cur.k = hist.step.k /\ pc \in {"loop", "done"}
    /\ hist.skip_answered =>
        /\ error = NoError
        /\ hist.outcome = "complete" =>
            hist.post_runs = 1 /\ meas.exit_status # NoStatus

\* C10: once a module has set the disposition to cancel, no module.run,
\* post_group or post_run is called, and the run ends with the Exit_Status
\* "Failure"
C10_CancelFails ==
    hist.cancel_set =>
        /\ hist.after_cancel = 0
        /\ pc = "done" => meas.exit_status = "Failure"

\* C11: when a listener has left cancel_run True on the RunExceptionEvent
\* of a module.run or of a prepare_group, the run has ended with no
\* module.run under way and with the Exit_Status "Failure"
C11_AbortFails ==
    hist.cancelled \in {"run", "prepare_group"} =>
        /\ pc = "done"
        /\ hist.running = 0
        /\ meas.exit_status = "Failure"

\* C12: a run that has ended has notified one EndRunEvent, the last of its
\* events, a run that has not ended none, and when the run has ended no
\* module.run is under way or still to start on a thread
C12_OneEndRun ==
    /\ hist.end_runs = (IF pc = "done" THEN 1 ELSE 0)
    /\ pc = "done" =>
        /\ events # <<>>
        /\ events[Len(events)] = EndRunEvent
        /\ \A k \in 1..(Len(events) - 1) : events[k].type # "EndRun"
        /\ hist.running = 0
        /\ ~it.worker.running
        /\ it.worker.alive => it.worker.exited_run
    /\ pc # "done" => \A k \in 1..Len(events) : events[k].type # "EndRun"
    /\ hist.after_end = 0

\* a run has ended after a listener's skip of the last image set: one
\* EndRunEvent
C12_Witness ==
    /\ pc = "done"
    /\ hist.skip_answered
    /\ hist.outcome = "complete"
    /\ hist.end_runs = 1
    /\ events = <<EndRunEvent>>

\* C13: when the run has ended, its measurements have been flushed
C13_Flushed == pc = "done" => meas.flushed

\* C14: a run that came to the end of its loop without a listener's
\* cancel has called post_run of every module in list order, after every
\* image set and every post_group, and recorded the Exit_Status
\* "Complete"; "Complete" is not recorded when a module has set the
\* disposition to cancel or a listener has cancelled; and a run that
\* ended otherwise has called no post_run
C14_PostRun ==
    /\ hist.outcome = "complete" /\ hist.cancelled = "" =>
        /\ hist.post_run_calls = [k \in 1..Len(modules) |-> k]
        /\ meas.exit_status = "Complete"
    /\ hist.post_runs > 0 =>
        /\ \A g \in Groups : hist.posted[g] = hist.prepared[g]
        /\ \A s \in ToProcess(Reported) :
            s = hist.set_cur \/ Earlier(s, hist.set_cur)
    /\ hist.cancel_set \/ hist.cancelled # "" =>
        meas.exit_status # "Complete"
    /\ hist.outcome \in {"returned", "raised"} => hist.post_runs = 0

\* C15: with two modules that report groupings, no prepare_group,
\* module.run, post_group or post_run is called, and a run whose
\* prepare_run succeeded ends in a ValueError raised to the caller, for
\* which the listeners get no RunExceptionEvent
C15_TwoGroupingModules ==
    cfg.groupers > 1 =>
        /\ \A g \in Groups : hist.prepared[g] = 0 /\ hist.posted[g] = 0
        /\ hist.cur.k = 0 /\ hist.running = 0 /\ hist.post_runs = 0
        /\ pc \in {"prepare_run", "loop", "done"}
        /\ pc = "done" /\ hist.outcome # "returned" =>
            /\ hist.outcome = "raised" /\ error = "ValueError"
            /\ \A k \in 1..Len(events) :
                events[k].type = "RunException" =>
                    events[k].hook = "prepare_run"

\* the run of a pipeline with two grouping modules has ended in the
\* ValueError, raised by the generator
C15_Witness ==
    /\ pc = "done"
    /\ cfg.groupers = 2
    /\ ~cfg.grouping.given
    /\ error = "ValueError"
    /\ hist.prepare_runs = 1
    /\ events = <<EndRunEvent>>

\* the elements of a sequence are all different
NoDuplicates(q) ==
    \A i, j \in 1..Len(q) : i # j => q[i] # q[j]

\* C16: without a grouping module, get_groupings returns no key names and
\* one group, whose image numbers are those of the measurements, each
\* once; and a run without a grouping asked for that comes to the end of
\* its loop has processed each image number in range once, and no other
C16_DefaultGroup ==
    cfg.groupers = 0 /\ pc # "idle" =>
        /\ get_groupings(Workspace(cfg, meas)).error = NoError
        /\ get_groupings(Workspace(cfg, meas)).keys = {}
        /\ Len(get_groupings(Workspace(cfg, meas)).groupings) = 1
        /\ get_groupings(Workspace(cfg, meas)).groupings[1].image_numbers
               = meas.image_numbers
        /\ NoDuplicates(meas.image_numbers)
        /\ NoDuplicates(hist.processed)
        /\ ~cfg.grouping.given /\ hist.outcome = "complete" =>
            hist.processed = SelectSeq(Images, LAMBDA n : InRange(cfg, n))

\* a run without a grouping module, from image set 2 on, has come to its
\* end
C16_Witness ==
    /\ cfg.groupers = 0
    /\ ~cfg.grouping.given
    /\ cfg.image_set_start = 2
    /\ cfg.image_set_end = None
    /\ hist.outcome = "complete"
    /\ Len(hist.processed) = MaxImages - 1
    /\ hist.processed[1] = 2
    /\ meas.exit_status = "Complete"

\* C17: when the keys of the grouping asked for are not the key names of
\* get_groupings, no prepare_group and no module.run is called, and a run
\* whose prepare_run succeeded ends in a ValueError raised to the caller,
\* with no RunExceptionEvent
C17_KeyMismatch ==
    /\ cfg.grouping.given
    /\ cfg.groupers < 2
    /\ get_groupings(Workspace(cfg, meas)).keys # cfg.grouping.keys
    => /\ \A g \in Groups : hist.prepared[g] = 0
       /\ hist.cur.k = 0 /\ hist.running = 0
       /\ pc \in {"prepare_run", "loop", "done"}
       /\ pc = "done" /\ hist.outcome # "returned" =>
           /\ hist.outcome = "raised" /\ error = "ValueError"
           /\ events = <<EndRunEvent>>

\* a run asked for the grouping of a key that the pipeline's grouping
\* module does not have has ended in the ValueError
C17_Witness ==
    /\ pc = "done"
    /\ cfg.groupers = 1
    /\ cfg.grouping = Grouping({"Column"}, "A")
    /\ error = "ValueError"
    /\ hist.prepare_runs = 1
    /\ events = <<EndRunEvent>>

\* C18: the source of every Dependency that get_dependency_graph returns
\* has a smaller module_num than its destination
C18_Backward ==
    graph.called =>
        \A k \in 1..Len(graph.result) :
            graph.modules[graph.result[k].source].module_num
                < graph.modules[graph.result[k].destination].module_num

\* a module that provides the image it subscribes to comes twice after
\* the module that loads the image: both depend on the loader
C18_Witness ==
    /\ graph.called
    /\ Len(graph.modules) = 3
    /\ graph.modules[1].module_name = "LoadImages"
    /\ graph.modules[2].module_name = "Smooth"
    /\ graph.modules[3].module_name = "Smooth"
    /\ Len(graph.result) = 2
    /\ graph.result[2].source = 1 /\ graph.result[2].destination = 3

\* the setting subscribes to an image or to objects, or refers to a
\* measurement
IsSubscriber(setting) ==
    \/ setting.class = "NameSubscriber"
       /\ setting.group \in {IMAGE_GROUP, OBJECT_GROUP}
    \/ setting.class = "Measurement"

\* the group in which a subscriber's name is looked up, and the name
GroupOf(setting) ==
    IF setting.class = "Measurement" THEN MEASUREMENTS_GROUP ELSE setting.group
NameOf(setting) ==
    IF setting.class = "Measurement" THEN <<setting.object, setting.value>>
    ELSE <<setting.value>>

\* the module provides the name in the group
Provides(mod, g, name) ==
    \/ \E i \in 1..Len(mod.other_providers) :
        mod.other_providers[i] = Other(g, name[1]) /\ Len(name) = 1
    \/ g = MEASUREMENTS_GROUP
       /\ \E i \in 1..Len(mod.columns) : mod.columns[i] = name
    \/ \E i \in 1..Len(mod.visible_settings) :
        /\ mod.visible_settings[i].class = "NameProvider"
        /\ mod.visible_settings[i].group = g
        /\ mod.visible_settings[i].value # DO_NOT_USE
        /\ <<mod.visible_settings[i].value>> = name

\* the places in the result of the dependencies of setting j of module m
EdgesOf(m, j) ==
    {k \in 1..Len(graph.result) :
        /\ graph.result[k].destination = m
        /\ graph.result[k].destination_setting = j}

\* the modules before module m that provide what its setting subscribes to
ProvidersBefore(m, setting) ==
    {p \in 1..(m - 1) :
        Provides(graph.modules[p], GroupOf(setting), NameOf(setting))}

\* C19: for every visible subscriber setting of a module (a subscriber to
\* an image or to objects, or a measurement reference), the result of
\* get_dependency_graph has one Dependency if a module before it provides
\* the name, from the first such module and of the subscriber's kind, and
\* none otherwise; and settings that do not subscribe have none
C19_FirstProvider ==
    graph.called =>
        \A m \in 1..Len(graph.modules) :
            \A j \in 1..Len(graph.modules[m].visible_settings) :
                IF ~IsSubscriber(graph.modules[m].visible_settings[j])
                THEN EdgesOf(m, j) = {}
                ELSE IF ProvidersBefore(m, graph.modules[m].visible_settings[j]) = {}
                THEN EdgesOf(m, j) = {}
                ELSE /\ Cardinality(EdgesOf(m, j)) = 1
                     /\ \A k \in EdgesOf(m, j) :
                         /\ graph.result[k].source \in
                              ProvidersBefore(m, graph.modules[m].visible_settings[j])
                         /\ \A p \in ProvidersBefore(m, graph.modules[m].visible_settings[j]) :
                              graph.result[k].source <= p
                         /\ graph.result[k].name =
                              NameOf(graph.modules[m].visible_settings[j])
                         /\ graph.result[k].type =
                              (IF GroupOf(graph.modules[m].visible_settings[j]) = IMAGE_GROUP
                               THEN "Image"
                               ELSE IF GroupOf(graph.modules[m].visible_settings[j]) = OBJECT_GROUP
                               THEN "Object" ELSE "Measurement")

\* an image loaded without a setting is segmented and the objects are
\* measured: an image, an object and a measurement dependency
C19_Witness ==
    /\ graph.called
    /\ Len(graph.modules) = 3
    /\ graph.modules[1].module_name = "LoadSingle"
    /\ graph.modules[2].module_name = "Identify"
    /\ graph.modules[3].module_name = "Measure"
    /\ Len(graph.result) = 3
    /\ graph.result[1].type = "Image" /\ graph.result[1].source_setting = None
    /\ graph.result[2].type = "Object" /\ graph.result[2].source = 2
    /\ graph.result[3].type = "Measurement" /\ graph.result[3].source = 2

\* C20: a move_module of the first module up, of the last module down or
\* in an unknown direction raises ValueError and leaves the module list,
\* the module_num of every module, the recorded settings and the undo
\* stack as they were, and notifies no event
C20_MoveRefused ==
    [][last'.op = RefusedCall =>
          /\ error' = "ValueError"
          /\ modules' = modules
          /\ objs' = objs
          /\ settings' = settings
          /\ undo_stack' = undo_stack
          /\ undo_start' = undo_start
          /\ events' = <<>>]_vars

\* a move that cannot be made has been refused on a list of two modules
\* whose undo stack holds two closures
C20_Witness ==
    /\ last.op = RefusedCall
    /\ error = "ValueError"
    /\ Len(modules) = 2
    /\ Len(undo_stack) = 2
    /\ events = <<>>

\* ------------------------------------------------------------------------
\* the claims about propagate
\* ------------------------------------------------------------------------
\* whether propagate was called on arrays of one shape, and returned
Propagated == prop.given /\ prop.called /\ prop.result.computed
\* the masked neighbours of a pixel
MaskedNeighbours(p) ==
    {q \in Pixels(prop.mask.shape) :
        manhattan_distance(p, q) = 1 /\ prop.mask.at[q]}
\* the least of a set of costs, -1 standing for no path
Least(S) ==
    IF S \subseteq {-1} THEN -1
    ELSE CHOOSE d \in S \ {-1} : \A e \in S \ {-1} : d <= e
\* the place of a pixel in numpy's order
Place(p) == p[1] * prop.mask.shape[2] + p[2] + 1
\* the pixel at a place
PixelAt(k) == Coordinates(prop.mask.shape)[k]
\* the costs of the steps from the pixel at a place to its neighbours among
\* the first k pixels, 0 for the other pixels
RECURSIVE StepCostsFrom(_, _)
StepCostsFrom(q, k) ==
    IF k = 0 THEN <<>>
    ELSE Append(StepCostsFrom(q, k - 1),
                IF manhattan_distance(q, PixelAt(k)) = 1
                THEN distance(prop.image, q, PixelAt(k), prop.weight)
                ELSE 0)
\* the costs of the steps from each of the first k pixels
RECURSIVE StepCosts(_)
StepCosts(k) ==
    IF k = 0 THEN <<>>
    ELSE Append(StepCosts(k - 1),
                StepCostsFrom(PixelAt(k), Len(Coordinates(prop.mask.shape))))
\* the cost of the cheapest path to p of at most one more step, f holding
\* the costs of the cheapest paths to every pixel, in numpy's order
Relax(f, cost, p) ==
    IF ~prop.mask.at[p] THEN -1
    ELSE Least({f[Place(p)]} \cup
               {f[Place(q)] + cost[Place(q)][Place(p)] :
                   q \in {q \in MaskedNeighbours(p) : f[Place(q)] >= 0}})
\* the same for the first k pixels
RECURSIVE RelaxAll(_, _, _)
RelaxAll(f, cost, k) ==
    IF k = 0 THEN <<>>
    ELSE Append(RelaxAll(f, cost, k - 1), Relax(f, cost, PixelAt(k)))
\* the costs of the cheapest paths of at most n more steps
RECURSIVE Relaxed(_, _, _)
Relaxed(f, cost, n) ==
    IF n = 0 THEN f
    ELSE CHOOSE h \in {Relaxed(g, cost, n - 1) :
                          g \in {RelaxAll(f, cost, Len(f))}} : TRUE
\* the cost of the cheapest path through masked pixels from a masked seed
\* of the label l to each pixel, in numpy's order, -1 where there is none
Cheapest(l, cost) ==
    Relaxed([k \in 1..Len(Coordinates(prop.mask.shape)) |->
                IF prop.labels.at[PixelAt(k)] = l /\ prop.mask.at[PixelAt(k)]
                THEN 0 ELSE -1],
            cost, Len(Coordinates(prop.mask.shape)))
\* the labels of the seeds
SeedLabels == {prop.labels.at[p] : p \in Pixels(prop.labels.shape)} \ {0}
\* the costs of the cheapest paths from the seeds of each label 1..n
RECURSIVE CheapestOf(_, _)
CheapestOf(n, cost) ==
    IF n = 0 THEN <<>> ELSE Append(CheapestOf(n - 1, cost), Cheapest(n, cost))
\* the same, from the costs of the steps of the image
CheapestPaths ==
    CHOOSE by \in {CheapestOf(Cardinality(Labels), cost) :
                      cost \in {StepCosts(Len(Coordinates(prop.mask.shape)))}}
        : TRUE
\* the cost of the cheapest path from a seed to p, given those by label
CostTo(by, p) == Least({by[l][Place(p)] : l \in DOMAIN by})
\* the labels of the seeds whose cheapest path to p is the cheapest
Nearest(by, p) ==
    {l \in DOMAIN by : by[l][Place(p)] >= 0
                          /\ by[l][Place(p)] = CostTo(by, p)}

\* C21: propagate raises ValueError, before it computes a label or a
\* distance, when the shape of the image differs from that of the labels
\* or from that of the mask
C21_ShapeError ==
    (/\ prop.given
     /\ prop.called
     /\ \/ prop.image.shape # prop.labels.shape
        \/ prop.image.shape # prop.mask.shape) =>
        /\ prop.result.error = "ValueError"
        /\ ~prop.result.computed

\* C22: in the result of propagate every pixel outside the mask has label 0
\* and distance -1, and every pixel of distance 0 is a masked seed
C22_OutsideMask ==
    Propagated =>
        \A p \in Pixels(prop.mask.shape) :
            /\ ~prop.mask.at[p] =>
                  /\ prop.result.labels_out.at[p] = 0
                  /\ prop.result.distances.at[p] = -1
            /\ prop.result.distances.at[p] = 0 =>
                  /\ prop.mask.at[p]
                  /\ prop.labels.at[p] > 0

\* C23: every masked pixel that a masked seed reaches through masked
\* neighbours gets the cost of the cheapest such path as its distance and
\* the label of a seed whose path costs that; seeds get distance 0, the
\* distance never decreases from a pixel to the pixel it pushed, and the
\* queue is empty at the end
ShortestPath(by) ==
    /\ prop.result.pq = <<>>
    /\ \A p \in Pixels(prop.mask.shape) :
          /\ (prop.mask.at[p] /\ prop.labels.at[p] > 0) =>
                prop.result.distances.at[p] = 0
          /\ (prop.mask.at[p] /\ CostTo(by, p) >= 0) =>
                /\ prop.result.distances.at[p] = CostTo(by, p)
                /\ prop.result.labels_out.at[p] \in Nearest(by, p)
          /\ p \in prop.result.finalized =>
                prop.result.distances.at[prop.result.from[p]]
                    <= prop.result.distances.at[p]
C23_ShortestPath ==
    Propagated => \A by \in {CheapestPaths} : ShortestPath(by)

\* a pixel that is no seed was reached at a cost above 0 on an image that
\* is not flat, with a pixel outside the mask
C23_Witness ==
    /\ Propagated
    /\ \E p, q, r \in Pixels(prop.mask.shape) :
          /\ prop.labels.at[p] = 0
          /\ prop.result.distances.at[p] > 0
          /\ prop.result.labels_out.at[p] > 0
          /\ prop.image.at[q] = 1
          /\ ~prop.mask.at[r]
    /\ Cardinality(SeedLabels) = 2

\* C24: a pixel that seeds of different labels reach at the same cost gets
\* the lower of the labels, in whatever order the entries were pushed
LowerLabel(by) ==
    \A p \in Pixels(prop.mask.shape) :
        (prop.mask.at[p] /\ CostTo(by, p) >= 0) =>
            \A l \in Nearest(by, p) : prop.result.labels_out.at[p] <= l
C24_LowerLabel ==
    Propagated => \A by \in {CheapestPaths} : LowerLabel(by)

\* the pixel in the middle of two seeds, of label 2 on the left and of
\* label 1 on the right, of a flat image got label 1 at the cost 1
C24_Witness ==
    /\ Propagated
    /\ prop.image = zeros(<<1, 3>>)
    /\ prop.mask = Filled(<<1, 3>>, TRUE, {}, FALSE)
    /\ prop.weight = 1
    /\ prop.labels.at = (<<0, 0>> :> 2) @@ (<<0, 1>> :> 0) @@ (<<0, 2>> :> 1)
    /\ prop.result.labels_out.at[<<0, 1>>] = 1
    /\ prop.result.distances.at[<<0, 1>>] = 1
    /\ Nearest(CheapestPaths, <<0, 1>>) = {1, 2}

Damaged == io.op = "load" /\ io.damage.kind # "none" /\ error = NoError
\* the LoadExceptionEvents of the load
LoadExceptions == SelectSeq(events, LAMBDA e : e.type = "LoadException")
\* the modules of the pipeline as a file persists them, from the j-th on
LoadedFrom(j) == SubSeq(Persisted(Self), j, Len(modules))

\* C26: a module record whose header has no variable_revision_number is
\* reported with a LoadExceptionEvent and is not added to the module list,
\* whether the listeners leave cancel_run set (the load stops there) or
\* clear it (the other records are loaded)
C26_NoRevisionRejected ==
    (Damaged /\ io.damage.kind = "no_revision") =>
        /\ LoadExceptions # <<>>
        /\ LoadExceptions[1].module_name
               = io.damage.records[io.damage.k].module_name
        /\ Len(modules) = IF LoadExceptions[1].cancel_run
                          THEN io.damage.k - 1
                          ELSE Len(io.damage.records) - 1

\* C27: when a module record cannot be restored the listeners hear a
\* LoadExceptionEvent with the module's name and the setting values read
\* so far; with cancel_run left set no later record is read, with
\* cancel_run cleared the later records are loaded; either way the records
\* before it are loaded, the modules are numbered 1..k in file order and a
\* PipelineLoadedEvent is the last event
C27_LoadException ==
    Damaged =>
        /\ LoadExceptions # <<>>
        /\ LoadExceptions[1].module_name
               = (IF io.damage.kind = "unknown_module" THEN <<"Nope">>
                  ELSE io.damage.records[io.damage.k].module_name)
        /\ LoadExceptions[1].settings
               = (IF io.damage.kind = "bad_setting" THEN <<>>
                  ELSE io.damage.records[io.damage.k].settings)
        /\ LoadExceptions[1].cancel_run =>
              /\ io.parsed = io.damage.k
              /\ Len(LoadExceptions) = 1
        /\ ~LoadExceptions[1].cancel_run =>
              /\ Len(modules) >= Len(io.damage.records) - 1
              /\ LoadedFrom(Len(modules) + 1
                            - (Len(io.damage.records) - io.damage.k))
                     = SubSeq(io.damage.records, io.damage.k + 1,
                              Len(io.damage.records))
        /\ Len(modules) >= io.damage.k - 1
        /\ SubSeq(Persisted(Self), 1, io.damage.k - 1)
               = SubSeq(io.damage.records, 1, io.damage.k - 1)
        /\ \A m \in 1..Len(modules) : objs[modules[m]].module_num = m
        /\ events[Len(events)].type = "PipelineLoaded"

\* the first of two records had a setting line with a colon too many, the
\* listeners cleared cancel_run and the second record was loaded
C27_Witness ==
    /\ Damaged
    /\ io.damage.kind = "bad_setting"
    /\ io.damage.k = 1
    /\ Len(io.damage.records) = 2
    /\ ~LoadExceptions[1].cancel_run
    /\ Len(modules) = 1
    /\ Persisted(Self) = Tail(io.damage.records)

\* C28: when a module's prepare_run has returned False or raised, the
\* listeners have been notified of it with a RunExceptionEvent of the hook
\* prepare_run; and when it returned False, or raised and the listener left
\* cancel_run set, the run has ended without any prepare_group, module.run,
\* post_group or post_run and without the Exit_Status "Complete"
C28_PrepareRunAborts ==
    hist.prepare \in {"failed", "raised"} =>
        /\ hist.prepare_notified > 0
        /\ (hist.prepare = "failed" \/ hist.cancelled = "prepare_run") =>
              /\ pc = "done"
              /\ hist.outcome = "returned"
              /\ \A g \in Groups : hist.prepared[g] = 0 /\ hist.posted[g] = 0
              /\ hist.cur = NoCall
              /\ hist.processed = <<>>
              /\ hist.post_runs = 0
              /\ meas.exit_status # "Complete"

\* C29: an undo() on a stack that is not empty leaves the stack as it was
\* without its last entry, whatever the inverse action called and also when
\* it raised; an undo() on an empty stack leaves the module list and the
\* stack as they were
C29_UndoPops ==
    [][last'.op \in {"undo", UndoRaised} =>
          IF undo_stack = <<>>
          THEN undo_stack' = <<>> /\ View' = View /\ modules' = modules
          ELSE undo_stack' = Front(undo_stack)]_vars

\* an undo whose action raised, with an entry left on the stack
C29_Witness ==
    /\ last.op = UndoRaised
    /\ error = "ValueError"
    /\ undo_stack # <<>>

Completed(k) ==
    /\ k > 0
    /\ hist.step.k = k
    /\ ~(hist.step.events > 0 /\ (hist.step.cancel_run \/ hist.step.skip_thisset))
    /\ it.disposition \notin {DISPOSITION_SKIP, DISPOSITION_CANCEL}
    /\ hist.cur.k = k
    /\ pc \in {"module", "loop", "paused"}
    /\ meas.image_number = it.image_number

\* the failure flag and the execution time of module k are in the
\* measurements, the time not negative
Measured(k) ==
    /\ hist.step.recorded
    /\ meas.ModuleError[k] # None
    /\ meas.ExecutionTime[k] # None
    /\ meas.ExecutionTime[k] >= 0

Suppressed(k) ==
    \/ \E j \in 1..k : should_stop_writing_measurements(objs[modules[j]])
    \/ objs[modules[k]].module_name = <<"Restart">>

C32_ColumnsFresh ==
    cache.got.called =>
        /\ cache.got.columns = Computed(Self, cache.got.terminating_module)
        /\ cache.got.terminating_module # None =>
              \A k \in 1..Len(cache.got.columns) :
                  cache.got.columns[k].of < cache.got.terminating_module

\* a module.run comes after the one before it: in a later group, or for a
\* later image set of the group, or for a later module of the image set
After(a, b) ==
    \/ a.g > b.g
    \/ a.g = b.g /\ a.i > b.i
    \/ a.g = b.g /\ a.i = b.i /\ a.k > b.k

\* C33: a pass of the module loop ends at its one yield, whatever the mode
\* (foreground, interactive, background worker), and run_with_yield yields
\* nowhere else but in the pause loop, where it yields each time it is
\* resumed and finds the disposition pause and a frame; the module.runs of
\* a call follow each other through the groups, image sets and modules, so
\* that they are finitely many; and every call, a call after a run too,
\* has done its prepare_run, once, when a module is run
C33_Yields ==
    /\ [](pc \in {"module", "after", "paused"} => hist.prepare_runs = 1)
    /\ [](hist.prev.k > 0 /\ hist.cur.k > 0 => After(hist.cur, hist.prev))
    /\ [][/\ pc = "module" => pc' = "after" /\ it'.k = it.k
          /\ pc' = "after" => pc \in {"module", "after"}
          /\ pc' = "after" /\ pc = "after" => it'.k = it.k
          /\ pc = "after" =>
                (pc' = "paused" <=>
                    /\ it'.disposition = DISPOSITION_PAUSE
                    /\ cfg.frame
                    /\ pc' \notin {"done", "after"}
                    /\ it'.k = it.k)
          /\ pc' = "paused" => pc \in {"after", "paused"}]_vars

\* the second call of run_with_yield has come to the yield of a module whose
\* run is on the worker's thread
C33_Witness ==
    /\ hist.call = 2
    /\ pc = "after"
    /\ OnWorkerThread
    /\ it.worker.alive
    /\ hist.prepare_runs = 1

\* the image number n is one the caller asked for
Within(n) ==
    /\ n >= cfg.image_set_start
    /\ cfg.image_set_end = None \/ n <= cfg.image_set_end

\* the places in group g of the image numbers the caller asked for
PlacesWithin(g) ==
    {i \in 1..Len(Reported.groupings[g].image_numbers) :
        Within(Reported.groupings[g].image_numbers[i])}

C35_OneDone ==
    /\ runner.done <= 1
    /\ ~runner.posted_early
    /\ ~runner.posted_paused
    /\ (/\ runner.at = "ended"
        /\ runner.listener = "idle"
        /\ ~runner.paused) => runner.done = 1

\* C36: an add_module of a module numbered outside 1..len+1 and a
\* remove_module of a position outside 1..len raise an error and leave the
\* module list, the module_num of every module, the recorded settings and
\* the undo stack as they were, and notify no event
C36_OutsideRefused ==
    [][last'.op = OutsideCall =>
          /\ error' # NoError
          /\ modules' = modules
          /\ \A k \in 1..Len(modules) :
                objs'[modules[k]].module_num = objs[modules[k]].module_num
          /\ settings' = settings
          /\ undo_stack' = undo_stack
          /\ events' = <<>>]_vars

\* C37: when a setting line of a module record cannot be read and the
\* listeners clear cancel_run, the listeners hear one LoadExceptionEvent,
\* the module loop makes one pass for every record of the file, and no
\* event names anything but the module of the failed record: the setting
\* lines left of that record are not read as a module header
C37_Resumes ==
    (/\ Damaged
     /\ io.damage.kind = "bad_setting"
     /\ ~LoadExceptions[1].cancel_run) =>
        /\ Len(LoadExceptions) = 1
        /\ io.parsed = Len(io.damage.records)
        /\ \A e \in 1..Len(LoadExceptions) :
              LoadExceptions[e].module_name
                  = io.damage.records[io.damage.k].module_name

\* get_measurement_columns() has the column c
Declares(c) ==
    \E j \in 1..Len(Computed(Self, None)) : Computed(Self, None)[j] = c

\* C38: when the last module's step of an image set is completed, the
\* modules whose failure flag and execution time are in the measurements
\* are those whose two columns get_measurement_columns() declares
C38_WrittenAsDeclared ==
    (modules # <<>> /\ Completed(Len(modules))) =>
        \A k \in 1..Len(modules) :
            /\ meas.ModuleError[k] # None
                    <=> Declares(StepColumns(objs[modules[k]])[1])
            /\ meas.ExecutionTime[k] # None
                    <=> Declares(StepColumns(objs[modules[k]])[2])

\* C39: clear() leaves no module in the list, notifies one
\* PipelineClearedEvent and nothing else, and pushes one entry on the undo
\* stack; the undo() that follows it restores the modules that were in the
\* list, in their order and with their settings, each numbered by its
\* place, and leaves the undo stack as it was before the clear()
C39_ClearUndone ==
    [][/\ last'.op = "clear" =>
            /\ modules' = <<>>
            /\ events' = << Event("PipelineCleared", 0, "") >>
            /\ Len(undo_stack') = Len(undo_stack) + 1
            /\ Front(undo_stack') = undo_stack
            /\ error' = NoError
       /\ (last.op = "clear" /\ last'.op = "undo") =>
            /\ View' = last.before
            /\ \A k \in 1..Len(modules') : objs'[modules'[k]].module_num = k
            /\ undo_stack' = Front(undo_stack)
            /\ error' = NoError]_vars

\* a list of two modules has been cleared and the clear() undone: the two
\* modules are back and the undo stack holds the two entries it held
C39_Witness ==
    /\ last.op = "undo"
    /\ last.undone = "clear"
    /\ Len(modules) = 2
    /\ View = last.before
    /\ Len(undo_stack) = 2
    /\ Last(undo_stack).kind = "remove_module"

\* the entries pushed since start_undoable_action that are on the stack
PushedSince == SubSeq(undo_stack, held + 1, Len(undo_stack))

\* C40: stop_undoable_action leaves the entries from before the start that
\* are still on the stack as they are, and when two or more entries pushed
\* since the start are on the stack it puts in their place one composite
\* entry that holds them all, whatever was called in between, undo()
\* included
C40_Collapsed ==
    [][(last'.op = "stop_undoable_action" /\ held # NoStart) =>
          /\ SubSeq(undo_stack', 1, held) = SubSeq(undo_stack, 1, held)
          /\ Len(PushedSince) >= 2 =>
                /\ Len(undo_stack') = held + 1
                /\ Last(undo_stack').kind = "composite"
                /\ Last(undo_stack').acts = PushedSince]_vars

====
